---- MODULE Spec2Model ----
(***************************************************************************)
(* Resilient event propagation engine of go-performance-enablement:        *)
(*   - the Kafka consumption loop with manual offset commits               *)
(*     (kafka-consumer/consumer, KafkaConsumer.Consume / consumeMessage),  *)
(*   - the CDC processor invoked by the loop (CDCProcessor.Process),       *)
(*   - the circuit breaker of the event-router lambda                      *)
(*     (CircuitBreaker.Execute).                                           *)
(***************************************************************************)
EXTENDS Integers, Sequences, FiniteSets, TLC

(***************************************************************************)
(* Bounds of the model.                                                    *)
(***************************************************************************)
NumPartitions == 1      \* partitions assigned to the consumer
LogLen == 2             \* messages per partition
MaxRestarts == 1        \* restarts of the consumer process
NumCallers == 2         \* goroutines sharing one breaker
MaxCalls == 6           \* Execute calls made in one behaviour
MaxTime == 4            \* clock ticks
MaxMaxFailures == 3     \* largest maxFailures a breaker is constructed with
MaxOpenTimeout == 2     \* largest timeout (in ticks) a breaker is constructed with
MaxBatch == 2           \* records in one batch handed to the event-router
MaxInvocations == 2     \* event-router invocations in one behaviour
MaxEvents == 21         \* events handed to one PublishEventBatch call
MaxEntries == 3         \* longest request whose responses are all enumerated
MaxChecks == 2          \* regional health checks handed to aggregateHealth
MaxDeps == 2            \* dependencies of one regional health check
MaxOutcomes == 1        \* distinct statuses a dependency check may return

VARIABLES
    \* ---- broker and consumer (kafka-consumer/consumer) ----
    log,            \* partition -> sequence of message payloads
    position,       \* partition -> next offset the consumer fetches
    committed,      \* partition -> committed offset of the consumer group
    cpc,            \* where the consumption loop is
    cur,            \* the message of the current iteration
    cancelled,      \* ctx.Done() has fired
    restarts,       \* restarts so far
    consumeResult,  \* what Consume returned
    \* history of the consumption loop
    processedOK,    \* messages <<p, o>> whose Process returned nil at least once
    failed,         \* messages <<p, o>> whose Process returned an error at least once
    iterProc,       \* processor result of the current iteration
    iterCommit,     \* message for which a commit was issued in the current iteration
    iterErr,        \* what consumeMessage returned in the current iteration
    cancelledAtPoll,\* ctx.Done() had fired when ReadMessage returned the message
    lastOutcome,    \* partition -> outcome of the last Process call on it
    \* ---- circuit breaker (lambdas/event-router) ----
    maxFailures, timeout,
    cbState, failureCount, successCount, lastFailure, lastStateChange,
    mu,             \* holder of cb.mu, 0 when free
    now,            \* the clock
    bpc,            \* caller -> where it is in Execute
    fnErr,          \* caller -> what the wrapped operation returned
    ret,            \* caller -> what Execute returns
    invoked,        \* caller -> the wrapped operation was invoked in this call
    pre,            \* caller -> breaker fields when the call took the lock
    atInvoke,       \* caller -> breaker fields when the operation was invoked
    calls,          \* Execute calls made so far
    hoSuccesses,    \* successful operations since the breaker entered half_open
    gauge,          \* the CircuitBreakerState gauge, NoGauge until first set
    \* ---- one run of CDCProcessor.Process (kafka-consumer/processor) ----
    procCodec,      \* an Avro codec is registered (SetAvroCodec)
    procValue,      \* msg.Value
    ppc,            \* where Process is
    procParse,      \* what parseCDCEvent returned
    procHandlers,   \* the handlers invoked, in order
    procErr,        \* what Process returned
    \* ---- event-router Lambda (lambdas/event-router) ----
    batch,          \* event.Records of the invocation
    idx,            \* position of the range loop of Handler, 1-based
    rpc,            \* where Handler / processRecord is
    errors,         \* var errors []error of Handler
    handlerResult,  \* what Handler returned
    invocations,    \* Handler invocations so far
    baseEvent,      \* baseEvent of processRecord
    envelope,       \* crossRegionEvent of processRecord
    compressErr,    \* the error compressEvent returned
    execRet,        \* what circuitBreaker.Execute returned
    publishedDetail,\* the detail PutEvents accepted for this record
    dlqCalls,       \* calls of sendToDLQ for this record
    dlqMessage,     \* the message handed to SendToDeadLetterQueue for this record
    dlqErr,         \* what sendToDLQ returned
    dlqCounted,     \* increments of the DLQMessages counter for this record
    recErr,         \* what processRecord returned
    processed,      \* the event ids processRecord has returned for, in order
    routeFailures,  \* records of this invocation for which Execute returned an error
    dlqFailures,    \* "failed to send to DLQ" log entries of this invocation
    \* ---- EventBridgePublisher (pkg/awsutils) ----
    events,         \* number of events of the PublishEventBatch call; event k is k
    badEvent,       \* the event json.Marshal fails on, 0 when there is none
    pubpc,          \* where PublishEventBatch / publishEntries is
    batchStart,     \* i of the batch loop of PublishEventBatch
    entries,        \* entries of publishEntries
    attempt,        \* attempt of the retry loop; the PutEvents calls made so far
    lastErr,        \* lastErr of publishEntries
    pubResult,      \* what PublishEventBatch returned
    attemptsReported, \* the %d of "failed to publish events after %d attempts"
    \* history of the publisher
    batches,        \* the entry lists handed to publishEntries, in order
    requests,       \* the entry lists handed to PutEvents, in order
    reportedOK,     \* entries of the current batch PutEvents reported successful
    \* ---- health-checker Lambda (lambdas/health-checker) ----
    checks,         \* the checks aggregateHealth is called with
    checksIn,       \* the checks as they were when aggregateHealth was called
    aggregated,     \* what aggregateHealth returned
    \* ---- an observer of the circuit breaker ----
    gotState,       \* what the last GetState call returned
    \* ---- the operation the breaker wraps ----
    healed,         \* from now on the wrapped operation succeeds
    \* ---- health-checker Lambda: Handler and its goroutines ----
    hpc,            \* where Handler is
    hwg,            \* counter of Handler's WaitGroup
    healthChecks,   \* buffer of the healthChecks channel
    errorsChan,     \* buffer of the errors channel
    closedChans,    \* the channels closed so far
    results,        \* the results collected from healthChecks
    checkErrors,    \* the errors collected from errors
    handlerAggregated, \* what aggregateHealth(results) returned
    handlerReturn,  \* what Handler returned
    gpc,            \* region -> where its goroutine is
    sentBy,         \* region -> items its goroutine has put on the channels
    health,         \* region -> the health of checkRegionHealth
    appended,       \* region -> names of the dependencies appended, in order
    rwg,            \* region -> counter of checkRegionHealth's WaitGroup
    rmu,            \* region -> holder of checkRegionHealth's mutex
    dpc,            \* region -> dependency -> where its goroutine is
    dep             \* region -> dependency -> status its check returned

consumerVars == <<log, position, committed, cpc, cur, cancelled, restarts,
                  consumeResult, processedOK, failed, iterProc, iterCommit,
                  iterErr, cancelledAtPoll, lastOutcome>>
breakerVars == <<maxFailures, timeout, cbState, failureCount, successCount,
                 lastFailure, lastStateChange, mu, now, bpc, fnErr, ret,
                 invoked, pre, atInvoke, calls, hoSuccesses, gauge>>
procVars == <<procCodec, procValue, ppc, procParse, procHandlers, procErr>>
routerVars ==
    <<batch, idx, rpc, errors, handlerResult, invocations, baseEvent, envelope,
      compressErr, execRet, publishedDetail, dlqCalls, dlqMessage, dlqErr,
      dlqCounted, recErr,
      processed, routeFailures, dlqFailures>>
pubVars == <<events, badEvent, pubpc, batchStart, entries, attempt, lastErr,
             pubResult, attemptsReported, batches, requests, reportedOK>>
healthVars == <<checks, checksIn, aggregated>>
handlerVars == <<hpc, hwg, healthChecks, errorsChan, closedChans, results,
                 checkErrors, handlerAggregated, handlerReturn, gpc, sentBy,
                 health, appended, rwg, rmu, dpc, dep>>
libVars == <<pubVars, healthVars, gotState, healed, handlerVars>>
nonConsumerVars == <<breakerVars, procVars, routerVars, libVars>>
nonBreakerVars == <<consumerVars, procVars, routerVars, libVars>>
nonProcessorVars == <<consumerVars, breakerVars, routerVars, libVars>>
nonPublisherVars ==
    <<consumerVars, breakerVars, procVars, routerVars, healthVars, gotState, healed,
      handlerVars>>
nonHealthVars ==
    <<consumerVars, breakerVars, procVars, routerVars, pubVars, gotState, healed,
      handlerVars>>
nonHandlerVars ==
    <<consumerVars, breakerVars, procVars, routerVars, pubVars, healthVars,
      gotState, healed>>
vars == <<consumerVars, breakerVars, procVars, routerVars, libVars>>

\* make(chan *wguevents.HealthCheckEvent, 2) and make(chan error, 2)
ChannelCapacity == 2

Nil == "nil"
None == "none"

\* No message, no processor outcome, no snapshot of the breaker.
NoMsg == <<>>
NoOutcome == [offset |-> 0 - 1, err |-> None]
NoProc == [msg |-> NoMsg, err |-> None]
NoFields ==
    [state |-> None, failureCount |-> 0, successCount |-> 0,
     lastFailure |-> 0, lastStateChange |-> 0, now |-> 0, hoSuccesses |-> 0]

(***************************************************************************)
(* pkg/events: operation tags and circuit breaker states.                  *)
(***************************************************************************)
OperationInsert == "INSERT"
OperationUpdate == "UPDATE"
OperationDelete == "DELETE"
OperationRefresh == "REFRESH"

CircuitBreakerClosed == "closed"
CircuitBreakerOpen == "open"
CircuitBreakerHalfOpen == "half_open"

(***************************************************************************)
(* CDC processor (kafka-consumer/processor).                               *)
(* msg.Value is modelled by what the decoders make of it:                  *)
(*   format "json"    json.Unmarshal into a CDCEvent succeeds;             *)
(*   format "avro"    json.Unmarshal fails, codec.NativeFromBinary         *)
(*                    succeeds; convertible says whether the native value, *)
(*                    marshalled to JSON, unmarshals into a CDCEvent;      *)
(*   format "garbage" neither decoder accepts it;                          *)
(* and by the fields it carries: the operation tag, and whether before,    *)
(* after and primary_keys are empty.                                       *)
(***************************************************************************)
Formats == {"json", "avro", "garbage"}
OperationTags ==
    {OperationInsert, OperationUpdate, OperationDelete, OperationRefresh,
     "UNKNOWN", ""}
FieldShapes == {"empty", "nonempty"}

Values ==
    [format : Formats, operation : OperationTags, before : FieldShapes,
     after : FieldShapes, primaryKeys : FieldShapes, convertible : BOOLEAN]

\* The payloads the consumer model reads: a well-formed INSERT, a message
\* with an unknown operation, and bytes that are no JSON.
Payloads ==
    { [format |-> "json", operation |-> OperationInsert, before |-> "empty",
       after |-> "nonempty", primaryKeys |-> "nonempty", convertible |-> FALSE],
      [format |-> "json", operation |-> "UNKNOWN", before |-> "empty",
       after |-> "nonempty", primaryKeys |-> "nonempty", convertible |-> FALSE],
      [format |-> "garbage", operation |-> "", before |-> "empty",
       after |-> "empty", primaryKeys |-> "empty", convertible |-> FALSE] }

NoEvent == [operation |-> None, before |-> None, after |-> None, primaryKeys |-> None]
NoParse == [err |-> None, event |-> NoEvent, codecUsed |-> FALSE]

\* The CDCEvent a decoder fills from the value: the fields, as they are.
EventOfSwapped(value) ==
    [operation |-> value.operation, before |-> value.after,
     after |-> value.before, primaryKeys |-> value.primaryKeys]

EventOf(value) ==
    [operation |-> value.operation, before |-> value.before,
     after |-> value.after, primaryKeys |-> value.primaryKeys]

\* parseCDCEvent of a processor with (codec = TRUE) or without a codec.
ParseWithCodecFirst(codec, value) ==
    IF codec
    THEN IF value.format = "avro" /\ value.convertible
         THEN [err |-> Nil, event |-> EventOf(value), codecUsed |-> TRUE]
         ELSE [err |-> "failed to deserialize Avro", event |-> NoEvent,
               codecUsed |-> TRUE]
    ELSE IF value.format = "json"
         THEN [err |-> Nil, event |-> EventOf(value), codecUsed |-> FALSE]
         ELSE [err |-> "failed to parse CDC event: unsupported format",
               event |-> NoEvent, codecUsed |-> FALSE]

ParseWith(codec, value) ==
    IF value.format = "json"
    THEN [err |-> Nil, event |-> EventOf(value), codecUsed |-> FALSE]
    ELSE IF codec
         THEN IF value.format /= "avro"
              THEN [err |-> "failed to deserialize Avro", event |-> NoEvent,
                    codecUsed |-> TRUE]
              ELSE IF ~value.convertible
                   THEN [err |-> "failed to unmarshal JSON to CDCEvent",
                         event |-> NoEvent, codecUsed |-> TRUE]
                   ELSE [err |-> Nil, event |-> EventOf(value), codecUsed |-> TRUE]
         ELSE [err |-> "failed to parse CDC event: unsupported format",
               event |-> NoEvent, codecUsed |-> FALSE]

\* parseCDCEvent with no codec registered (NewCDCProcessor leaves codec nil).
parseCDCEvent(value) == ParseWith(FALSE, value)

\* The switch of Process: the handler of an operation tag, None for the
\* default case.
HandlerForFallThrough(operation) ==
    CASE operation = OperationInsert -> "handleInsert"
      [] operation = OperationUpdate -> "handleUpdate"
      [] operation = OperationDelete -> "handleDelete"
      [] OTHER -> "handleRefresh"

HandlerFor(operation) ==
    CASE operation = OperationInsert -> "handleInsert"
      [] operation = OperationUpdate -> "handleUpdate"
      [] operation = OperationDelete -> "handleDelete"
      [] operation = OperationRefresh -> "handleRefresh"
      [] OTHER -> None

\* The handlers are stubs that return nil.
handleOperation(event) == Nil

\* What Process returns after the switch, for the handler chosen.
DispatchResult(handler, event) ==
    IF handler = None
    THEN "failed to process CDC event: unknown operation"
    ELSE IF handleOperation(event) /= Nil
         THEN "failed to process CDC event"
         ELSE Nil

\* CDCProcessor.Process: the error it returns, Nil on success.
Process(value) ==
    LET parsed == parseCDCEvent(value) IN
    IF parsed.err /= Nil THEN "failed to parse CDC event"
    ELSE DispatchResult(HandlerFor(parsed.event.operation), parsed.event)

\* One run of Process, step by step.
InitProcessor ==
    /\ procCodec \in BOOLEAN
    /\ procValue \in Values
    /\ ppc = "parse"
    /\ procParse = NoParse
    /\ procHandlers = <<>>
    /\ procErr = None

\* cdcEvent, err := p.parseCDCEvent(msg), and the return on a parse error.
ParseStep ==
    /\ ppc = "parse"
    /\ procParse' = ParseWith(procCodec, procValue)
    /\ IF procParse'.err /= Nil
       THEN /\ procErr' = "failed to parse CDC event"
            /\ ppc' = "done"
       ELSE /\ UNCHANGED procErr
            /\ ppc' = "dispatch"
    /\ UNCHANGED <<procCodec, procValue, procHandlers>>
    /\ UNCHANGED nonProcessorVars

\* The switch on cdcEvent.Operation, the handler call and the return.
DispatchStep ==
    /\ ppc = "dispatch"
    /\ LET handler == HandlerFor(procParse.event.operation) IN
          /\ procHandlers' = IF handler = None THEN procHandlers
                             ELSE Append(procHandlers, handler)
          /\ procErr' = DispatchResult(handler, procParse.event)
    /\ ppc' = "done"
    /\ UNCHANGED <<procCodec, procValue, procParse>>
    /\ UNCHANGED nonProcessorVars

NextProcessor ==
    \/ ParseStep
    \/ DispatchStep

(***************************************************************************)
(* Consumption loop (KafkaConsumer.Consume / consumeMessage).              *)
(***************************************************************************)
Partitions == 1..NumPartitions

Logs == [1..LogLen -> Payloads]

\* The topics the consumer is started on: the messages the processor rejects
\* are rejected for the same reason.
Topics ==
    { t \in [Partitions -> Logs] :
        \A p, q \in Partitions : \A i, j \in 1..LogLen :
            (Process(t[p][i]) /= Nil /\ Process(t[q][j]) /= Nil)
                => t[p][i] = t[q][j] }

\* Offsets are 0-based: the message at offset o of partition p.
MsgAt(p, o) == log[p][o + 1]

InitConsumer ==
    /\ log \in Topics
    /\ position = [p \in Partitions |-> 0]
    /\ committed = [p \in Partitions |-> 0]
    /\ cpc = "subscribe"
    /\ cur = NoMsg
    /\ cancelled = FALSE
    /\ restarts = 0
    /\ consumeResult = None
    /\ processedOK = {}
    /\ failed = {}
    /\ iterProc = NoProc
    /\ iterCommit = NoMsg
    /\ iterErr = None
    /\ cancelledAtPoll = FALSE
    /\ lastOutcome = [p \in Partitions |-> NoOutcome]

\* consumer.SubscribeTopics: on failure Consume returns the error.
Subscribe ==
    /\ cpc = "subscribe"
    /\ \E ok \in BOOLEAN :
         IF ok THEN /\ cpc' = "select"
                    /\ UNCHANGED consumeResult
         ELSE /\ cpc' = "returned"
              /\ consumeResult' = "failed to subscribe to topics"
    /\ UNCHANGED <<log, position, committed, cur, cancelled, restarts,
                   processedOK, failed, iterProc, iterCommit, iterErr,
                   cancelledAtPoll, lastOutcome>>
    /\ UNCHANGED nonConsumerVars

\* The select at the top of the loop: ctx.Done() wins when it has fired.
SelectIgnoresDone ==
    /\ cpc = "select"
    /\ cpc' = "read"
    /\ cur' = NoMsg
    /\ iterProc' = NoProc
    /\ iterCommit' = NoMsg
    /\ iterErr' = None
    /\ cancelledAtPoll' = FALSE
    /\ UNCHANGED <<log, position, committed, cancelled, restarts, consumeResult,
                   processedOK, failed, lastOutcome>>
    /\ UNCHANGED nonConsumerVars

Select ==
    /\ cpc = "select"
    /\ IF cancelled
       THEN /\ cpc' = "returned"
            /\ consumeResult' = "context canceled"
       ELSE /\ cpc' = "read"
            /\ UNCHANGED consumeResult
    /\ cur' = NoMsg
    /\ iterProc' = NoProc
    /\ iterCommit' = NoMsg
    /\ iterErr' = None
    /\ cancelledAtPoll' = FALSE
    /\ UNCHANGED <<log, position, committed, cancelled, restarts,
                   processedOK, failed, lastOutcome>>
    /\ UNCHANGED nonConsumerVars

\* consumer.ReadMessage(1s) times out (consumeMessage returns nil), or fails
\* with another error (consumeMessage returns it): either way consumeMessage
\* returns before the processor is called.
ReadNothing ==
    /\ cpc = "read"
    /\ iterErr' \in {Nil, "failed to read message"}
    /\ cpc' = "select"
    /\ UNCHANGED <<log, position, committed, cur, cancelled, restarts,
                   consumeResult, processedOK, failed, iterProc, iterCommit,
                   cancelledAtPoll, lastOutcome>>
    /\ UNCHANGED nonConsumerVars

\* consumer.ReadMessage returns the next message of some assigned partition:
\* the message at the consumer's fetch position, which then moves past it.
ReadMessageSkipping(p) ==
    /\ cpc = "read"
    /\ position[p] + 1 < Len(log[p])
    /\ cur' = <<p, position[p] + 1>>
    /\ position' = [position EXCEPT ![p] = @ + 2]
    /\ cpc' = "process"
    /\ cancelledAtPoll' = cancelled
    /\ UNCHANGED <<log, committed, cancelled, restarts, consumeResult,
                   processedOK, failed, iterProc, iterCommit, iterErr,
                   lastOutcome>>
    /\ UNCHANGED nonConsumerVars

ReadMessage(p) ==
    /\ cpc = "read"
    /\ position[p] < Len(log[p])
    /\ cur' = <<p, position[p]>>
    /\ position' = [position EXCEPT ![p] = @ + 1]
    /\ cpc' = "process"
    /\ cancelledAtPoll' = cancelled
    /\ UNCHANGED <<log, committed, cancelled, restarts, consumeResult,
                   processedOK, failed, iterProc, iterCommit, iterErr,
                   lastOutcome>>
    /\ UNCHANGED nonConsumerVars

\* processor.Process(ctx, msg); on error consumeMessage returns it without
\* committing, on success it goes on to CommitMessage.
AfterProcessCommitAnyway(err) == "commit"

AfterProcessFatal(err) == IF err /= Nil THEN "returned" ELSE "commit"

AfterProcess(err) == IF err /= Nil THEN "select" ELSE "commit"

ProcessMessage ==
    /\ cpc = "process"
    /\ LET err == Process(MsgAt(cur[1], cur[2]))
       IN /\ iterProc' = [msg |-> cur, err |-> err]
          /\ lastOutcome' = [lastOutcome EXCEPT
                               ![cur[1]] = [offset |-> cur[2], err |-> err]]
          /\ IF err /= Nil
             THEN /\ failed' = failed \cup {cur}
                  /\ UNCHANGED processedOK
             ELSE /\ processedOK' = processedOK \cup {cur}
                  /\ UNCHANGED failed
          /\ iterErr' = IF err /= Nil THEN err ELSE iterErr
          /\ cpc' = AfterProcess(err)
    /\ UNCHANGED <<log, position, committed, cur, cancelled, restarts,
                   consumeResult, iterCommit, cancelledAtPoll>>
    /\ UNCHANGED nonConsumerVars

\* consumer.CommitMessage(msg): commits offset+1 for the message's partition,
\* or fails and leaves the committed offset as it was.
CommitMessage ==
    /\ cpc = "commit"
    /\ iterCommit' = cur
    /\ \E ok \in BOOLEAN :
         IF ok THEN /\ committed' = [committed EXCEPT ![cur[1]] = cur[2] + 1]
                    /\ iterErr' = Nil
         ELSE /\ UNCHANGED committed
              /\ iterErr' = "failed to commit offset"
    /\ cpc' = "select"
    /\ UNCHANGED <<log, position, cur, cancelled, restarts, consumeResult,
                   processedOK, failed, iterProc, cancelledAtPoll, lastOutcome>>
    /\ UNCHANGED nonConsumerVars

\* main: a SIGINT/SIGTERM cancels the context.
Cancel ==
    /\ ~cancelled
    /\ cpc /= "returned"
    /\ cancelled' = TRUE
    /\ UNCHANGED <<log, position, committed, cpc, cur, restarts, consumeResult,
                   processedOK, failed, iterProc, iterCommit, iterErr,
                   cancelledAtPoll, lastOutcome>>
    /\ UNCHANGED nonConsumerVars

\* main after the signal: cancel(), metricsServer.Shutdown, return.  The
\* deferred kafkaConsumer.Close() runs and the process ends, wherever the
\* goroutine that runs Consume is: nothing waits for it.
Exit ==
    /\ cancelled
    /\ cpc /= "exited"
    /\ cpc' = "exited"
    /\ cur' = NoMsg
    /\ consumeResult' = None
    /\ iterProc' = NoProc
    /\ iterCommit' = NoMsg
    /\ iterErr' = None
    /\ cancelledAtPoll' = FALSE
    /\ UNCHANGED <<log, position, committed, cancelled, restarts, processedOK,
                   failed, lastOutcome>>
    /\ UNCHANGED nonConsumerVars

\* The process is started again (after an exit or a crash): a new consumer of
\* the group resumes every partition from its committed offset.
RestartFromBeginning ==
    /\ restarts < MaxRestarts
    /\ restarts' = restarts + 1
    /\ position' = [p \in Partitions |-> 0]
    /\ cpc' = "subscribe"
    /\ cur' = NoMsg
    /\ cancelled' = FALSE
    /\ consumeResult' = None
    /\ iterProc' = NoProc
    /\ iterCommit' = NoMsg
    /\ iterErr' = None
    /\ cancelledAtPoll' = FALSE
    /\ UNCHANGED <<log, committed, processedOK, failed, lastOutcome>>
    /\ UNCHANGED nonConsumerVars

Restart ==
    /\ restarts < MaxRestarts
    /\ restarts' = restarts + 1
    /\ position' = committed
    /\ cpc' = "subscribe"
    /\ cur' = NoMsg
    /\ cancelled' = FALSE
    /\ consumeResult' = None
    /\ iterProc' = NoProc
    /\ iterCommit' = NoMsg
    /\ iterErr' = None
    /\ cancelledAtPoll' = FALSE
    /\ UNCHANGED <<log, committed, processedOK, failed, lastOutcome>>
    /\ UNCHANGED nonConsumerVars

NextConsumer ==
    \/ Subscribe
    \/ Select
    \/ ReadNothing
    \/ \E p \in Partitions : ReadMessage(p)
    \/ ProcessMessage
    \/ CommitMessage
    \/ Cancel
    \/ Exit
    \/ Restart

(***************************************************************************)
(* Circuit breaker (lambdas/event-router/main.go).                         *)
(***************************************************************************)
Callers == 1..NumCallers

\* The zero time.Time of a breaker that never failed.
ZeroTime == 0 - 1

\* What the wrapped operation can return.
FnOutcomes == {Nil, "publish failed"}

\* The error of a rejected call.
OpenError == "circuit breaker is open"

Fields ==
    [state |-> cbState, failureCount |-> failureCount,
     successCount |-> successCount, lastFailure |-> lastFailure,
     lastStateChange |-> lastStateChange, now |-> now,
     hoSuccesses |-> hoSuccesses]

\* metrics.SetCircuitBreakerState: the value the gauge is set to.
NoGauge == 0 - 1

SetCircuitBreakerStateOfOpenOnly(state) ==
    IF state = CircuitBreakerOpen THEN 1 ELSE 0

SetCircuitBreakerState(state) ==
    IF state = CircuitBreakerClosed THEN 0
    ELSE IF state = CircuitBreakerOpen THEN 1
    ELSE IF state = CircuitBreakerHalfOpen THEN 2
    ELSE 0

\* NewCircuitBreaker(maxFailures, timeout) at time 0, no call made yet.
InitBreaker ==
    /\ maxFailures \in 1..MaxMaxFailures
    /\ timeout \in 1..MaxOpenTimeout
    /\ cbState = CircuitBreakerClosed
    /\ failureCount = 0
    /\ successCount = 0
    /\ lastFailure = ZeroTime
    /\ lastStateChange = 0
    /\ mu = 0
    /\ now = 0
    /\ bpc = [c \in Callers |-> "idle"]
    /\ fnErr = [c \in Callers |-> None]
    /\ ret = [c \in Callers |-> None]
    /\ invoked = [c \in Callers |-> FALSE]
    /\ pre = [c \in Callers |-> NoFields]
    /\ atInvoke = [c \in Callers |-> NoFields]
    /\ calls = 0
    /\ hoSuccesses = 0
    /\ gauge = NoGauge

\* time.Since(cb.lastStateChange) > cb.timeout, at time t.
TimeoutElapsedAtBoundary(t) == t - lastStateChange >= timeout

TimeoutElapsedLate(t) == t - lastStateChange > timeout + 1

TimeoutElapsed(t) == t - lastStateChange > timeout

\* The state after a failed operation, fc being the incremented failureCount.
FailureStateOffByOne(st, fc) ==
    IF st = CircuitBreakerHalfOpen THEN CircuitBreakerOpen
    ELSE IF fc > maxFailures THEN CircuitBreakerOpen
    ELSE st

FailureStatePartialCredit(st, fc) ==
    IF st = CircuitBreakerHalfOpen
    THEN (IF successCount > 0 THEN st ELSE CircuitBreakerOpen)
    ELSE IF fc >= maxFailures THEN CircuitBreakerOpen
    ELSE st

FailureState(st, fc) ==
    IF st = CircuitBreakerHalfOpen THEN CircuitBreakerOpen
    ELSE IF fc >= maxFailures THEN CircuitBreakerOpen
    ELSE st

\* The state after a successful operation, sc being the incremented successCount.
SuccessStateOneIsEnough(st, sc) ==
    IF st = CircuitBreakerHalfOpen /\ sc >= 1 THEN CircuitBreakerClosed ELSE st

SuccessStateNeverCloses(st, sc) == st

SuccessState(st, sc) ==
    IF st = CircuitBreakerHalfOpen /\ sc >= 2 THEN CircuitBreakerClosed ELSE st

\* A goroutine calls cb.Execute(fn).
CallBody(c) ==
    /\ bpc[c] = "idle"
    /\ calls < MaxCalls
    /\ calls' = calls + 1
    /\ bpc' = [bpc EXCEPT ![c] = "lock"]
    /\ UNCHANGED <<maxFailures, timeout, cbState, failureCount, successCount,
                   lastFailure, lastStateChange, mu, now, fnErr, ret, invoked,
                   pre, atInvoke, hoSuccesses, gauge>>

Call(c) ==
    /\ CallBody(c)
    /\ UNCHANGED nonBreakerVars

\* cb.mu.Lock()
LockNoExclusion(c) ==
    /\ bpc[c] = "lock"
    /\ mu' = c
    /\ bpc' = [bpc EXCEPT ![c] = "check"]
    /\ UNCHANGED <<maxFailures, timeout, cbState, failureCount, successCount,
                   lastFailure, lastStateChange, now, fnErr, ret, invoked, pre,
                   atInvoke, calls, hoSuccesses, gauge>>
    /\ UNCHANGED nonBreakerVars

Lock(c) ==
    /\ bpc[c] = "lock"
    /\ mu = 0
    /\ mu' = c
    /\ bpc' = [bpc EXCEPT ![c] = "check"]
    /\ UNCHANGED <<maxFailures, timeout, cbState, failureCount, successCount,
                   lastFailure, lastStateChange, now, fnErr, ret, invoked, pre,
                   atInvoke, calls, hoSuccesses, gauge>>
    /\ UNCHANGED nonBreakerVars

\* The rejection of a call by an open breaker returns at once: it writes no
\* field.
LastStateChangeOnRejectRestarted(lsc, t) == t

LastStateChangeOnReject(lsc, t) == lsc

FailureCountOnRejectCounted(fc) == fc + 1

FailureCountOnReject(fc) == fc

\* The open check: an open breaker rejects the call, or turns half-open once
\* the timeout has elapsed; unless rejected, fn is invoked.
Check(c) ==
    /\ bpc[c] = "check"
    /\ UNCHANGED <<maxFailures, timeout, lastFailure, mu, now, fnErr, calls>>
    /\ pre' = [pre EXCEPT ![c] = Fields]
    /\ IF cbState = CircuitBreakerOpen /\ ~TimeoutElapsed(now)
       THEN /\ ret' = [ret EXCEPT ![c] = OpenError]
            /\ bpc' = [bpc EXCEPT ![c] = "unlock"]
            /\ lastStateChange' = LastStateChangeOnReject(lastStateChange, now)
            /\ failureCount' = FailureCountOnReject(failureCount)
            /\ UNCHANGED <<cbState, successCount, invoked, atInvoke, hoSuccesses, gauge>>
       ELSE /\ UNCHANGED failureCount
            /\ IF cbState = CircuitBreakerOpen
               THEN /\ cbState' = CircuitBreakerHalfOpen
                    /\ successCount' = 0
                    /\ lastStateChange' = now
                    /\ hoSuccesses' = 0
                    /\ gauge' = SetCircuitBreakerState(cbState')
               ELSE UNCHANGED <<cbState, successCount, lastStateChange, hoSuccesses, gauge>>
            /\ invoked' = [invoked EXCEPT ![c] = TRUE]
            /\ atInvoke' = [atInvoke EXCEPT ![c] = Fields']
            /\ bpc' = [bpc EXCEPT ![c] = "fn"]
            /\ UNCHANGED ret
    /\ UNCHANGED nonBreakerVars

\* failureCount after a success: reset when the success closes the breaker,
\* left alone otherwise.
FailureCountAfterSuccessKept(closes, fc) == fc

FailureCountAfterSuccessReset(closes, fc) == 0

FailureCountAfterSuccess(closes, fc) == IF closes THEN 0 ELSE fc

\* What Execute returns once fn has returned e: "return err" or "return nil".
ReturnAfterFnSwallowed(e) == Nil

ReturnAfterFn(e) == IF e /= Nil THEN e ELSE Nil

\* fn returns e, and Execute updates the breaker and returns.
CompleteBody(c, e) ==
    /\ bpc[c] = "fn"
    /\ fnErr' = [fnErr EXCEPT ![c] = e]
    /\ IF e /= Nil
       THEN /\ failureCount' = failureCount + 1
            /\ lastFailure' = now
            /\ cbState' = FailureState(cbState, failureCount + 1)
            /\ lastStateChange' = IF cbState' = CircuitBreakerOpen
                                  THEN now ELSE lastStateChange
            /\ UNCHANGED <<successCount, hoSuccesses>>
            /\ gauge' = IF cbState' /= cbState
                        THEN SetCircuitBreakerState(cbState') ELSE gauge
       ELSE /\ successCount' = successCount + 1
            /\ hoSuccesses' = IF cbState = CircuitBreakerHalfOpen
                              THEN hoSuccesses + 1 ELSE hoSuccesses
            /\ cbState' = SuccessState(cbState, successCount + 1)
            /\ failureCount' = FailureCountAfterSuccess(cbState' /= cbState, failureCount)
            /\ lastStateChange' = IF cbState' /= cbState THEN now ELSE lastStateChange
            /\ gauge' = IF cbState' /= cbState
                        THEN SetCircuitBreakerState(cbState') ELSE gauge
            /\ UNCHANGED lastFailure
    /\ ret' = [ret EXCEPT ![c] = ReturnAfterFn(e)]
    /\ bpc' = [bpc EXCEPT ![c] = "unlock"]
    /\ UNCHANGED <<maxFailures, timeout, mu, now, invoked, pre, atInvoke, calls>>

Complete(c, e) ==
    /\ CompleteBody(c, e)
    /\ UNCHANGED nonBreakerVars

\* The deferred cb.mu.Unlock(), after which Execute hands ret[c] to its caller;
\* the locals of the call are gone.
UnlockBody(c) ==
    /\ bpc[c] = "unlock"
    /\ mu' = 0
    /\ bpc' = [bpc EXCEPT ![c] = "idle"]
    /\ fnErr' = [fnErr EXCEPT ![c] = None]
    /\ ret' = [ret EXCEPT ![c] = None]
    /\ invoked' = [invoked EXCEPT ![c] = FALSE]
    /\ pre' = [pre EXCEPT ![c] = NoFields]
    /\ atInvoke' = [atInvoke EXCEPT ![c] = NoFields]
    /\ UNCHANGED <<maxFailures, timeout, cbState, failureCount, successCount,
                   lastFailure, lastStateChange, now, calls, hoSuccesses, gauge>>

Unlock(c) ==
    /\ UnlockBody(c)
    /\ UNCHANGED nonBreakerVars

\* Time passes.
Tick ==
    /\ now < MaxTime
    /\ now' = now + 1
    /\ UNCHANGED <<maxFailures, timeout, cbState, failureCount, successCount,
                   lastFailure, lastStateChange, mu, bpc, fnErr, ret, invoked,
                   pre, atInvoke, calls, hoSuccesses, gauge>>
    /\ UNCHANGED nonBreakerVars

NextBreaker ==
    \/ \E c \in Callers : Call(c)
    \/ \E c \in Callers : Lock(c)
    \/ \E c \in Callers : Check(c)
    \/ \E c \in Callers, e \in FnOutcomes : Complete(c, e)
    \/ \E c \in Callers : Unlock(c)
    \/ Tick

\* The fields of the breaker proper.
BreakerFields ==
    <<maxFailures, timeout, cbState, failureCount, successCount, lastFailure,
      lastStateChange>>

\* cb.GetState() by a goroutine that is not in Execute: the read lock is
\* granted while no Execute holds cb.mu, and released before anything else
\* happens.
GetStateRefreshing ==
    /\ mu = 0
    /\ cbState' = IF cbState = CircuitBreakerOpen /\ TimeoutElapsed(now)
                  THEN CircuitBreakerHalfOpen ELSE cbState
    /\ gotState' = cbState'
    /\ UNCHANGED <<maxFailures, timeout, failureCount, successCount,
                   lastFailure, lastStateChange, mu, now, bpc, fnErr, ret,
                   invoked, pre, atInvoke, calls, hoSuccesses, gauge>>
    /\ UNCHANGED <<consumerVars, procVars, routerVars, pubVars, healthVars, healed,
                   handlerVars>>

GetState ==
    /\ mu = 0
    /\ gotState' = cbState
    /\ UNCHANGED breakerVars
    /\ UNCHANGED <<consumerVars, procVars, routerVars, pubVars, healthVars, healed,
                   handlerVars>>

\* The errors a wrapped operation can return, one with the text of the
\* rejection among them: Execute's rejection is the text and nothing else.
AnyFnOutcomes == FnOutcomes \cup {OpenError}

\* The breaker wrapping any operation, with a goroutine reading its state.
NextBreakerObserved ==
    \/ \E c \in Callers : Call(c)
    \/ \E c \in Callers : Lock(c)
    \/ \E c \in Callers : Check(c)
    \/ \E c \in Callers, e \in AnyFnOutcomes : Complete(c, e)
    \/ \E c \in Callers : Unlock(c)
    \/ Tick
    \/ GetState

(***************************************************************************)
(* Properties of the circuit breaker.                                      *)
(***************************************************************************)

\* The call of c has passed the open check.
Checked(c) == bpc[c] \in {"fn", "unlock"}

\* Execute of c is about to return: the breaker is updated, ret[c] is set.
Returning(c) == bpc[c] = "unlock"

\* Time elapsed since the last state change when the call of c was checked.
ElapsedAtCheck(c) == pre[c].now - pre[c].lastStateChange

\* C4: in state closed every call invokes the operation; a failure adds one to
\* failureCount, and the breaker opens exactly on the failure that makes
\* failureCount reach maxFailures and stays closed on an earlier failure.
ClosedFailureAccumulation ==
    \A c \in Callers :
        (Checked(c) /\ pre[c].state = CircuitBreakerClosed) =>
            /\ invoked[c]
            /\ (Returning(c) /\ fnErr[c] /= Nil) =>
                  /\ failureCount = pre[c].failureCount + 1
                  /\ cbState = (IF failureCount = maxFailures
                                THEN CircuitBreakerOpen ELSE CircuitBreakerClosed)
                  /\ failureCount <= maxFailures

\* A failure has left the breaker closed, and a failure has opened it, with
\* maxFailures above one.
ClosedFailureAccumulationWitness ==
    /\ maxFailures > 1
    /\ \E c \in Callers :
          /\ Returning(c)
          /\ pre[c].state = CircuitBreakerClosed
          /\ pre[c].failureCount > 0
          /\ fnErr[c] /= Nil
          /\ cbState = CircuitBreakerOpen

\* C5: a call checked while the breaker is open and no more than timeout has
\* elapsed since the last state change returns the open error without
\* invoking the operation, and the breaker stays open.
OpenRejects ==
    \A c \in Callers :
        (Checked(c) /\ pre[c].state = CircuitBreakerOpen
                    /\ ElapsedAtCheck(c) <= timeout) =>
            /\ Returning(c)
            /\ ~invoked[c]
            /\ ret[c] = OpenError
            /\ cbState = CircuitBreakerOpen

\* A call has been rejected exactly timeout after the breaker opened.
OpenRejectsWitness ==
    \E c \in Callers :
        /\ Returning(c)
        /\ pre[c].state = CircuitBreakerOpen
        /\ ElapsedAtCheck(c) = timeout
        /\ ret[c] = OpenError

\* C6 as stated: a call checked while the breaker is open and at least timeout
\* has elapsed (the boundary included) turns the breaker half-open with
\* successCount 0 and invokes the operation.
HalfOpenAtBoundary ==
    \A c \in Callers :
        (Checked(c) /\ pre[c].state = CircuitBreakerOpen
                    /\ ElapsedAtCheck(c) >= timeout) =>
            /\ invoked[c]
            /\ atInvoke[c].state = CircuitBreakerHalfOpen
            /\ atInvoke[c].successCount = 0
            /\ bpc[c] = "fn" => (cbState = CircuitBreakerHalfOpen /\ successCount = 0)

\* C6 amended: the same when more than timeout has elapsed.
HalfOpenAfterTimeout ==
    \A c \in Callers :
        (Checked(c) /\ pre[c].state = CircuitBreakerOpen
                    /\ ElapsedAtCheck(c) > timeout) =>
            /\ invoked[c]
            /\ atInvoke[c].state = CircuitBreakerHalfOpen
            /\ atInvoke[c].successCount = 0
            /\ bpc[c] = "fn" => (cbState = CircuitBreakerHalfOpen /\ successCount = 0)

\* The operation is running in a call that found the breaker open, right
\* after the timeout (timeout + 1), with successes counted before.
HalfOpenAfterTimeoutWitness ==
    \E c \in Callers :
        /\ bpc[c] = "fn"
        /\ pre[c].state = CircuitBreakerOpen
        /\ ElapsedAtCheck(c) = timeout + 1
        /\ pre[c].successCount > 0

\* C7: a failing operation invoked in state half-open leaves the breaker open,
\* whatever the successes accumulated in half-open before it.
HalfOpenFailureReopens ==
    \A c \in Callers :
        (Returning(c) /\ invoked[c] /\ atInvoke[c].state = CircuitBreakerHalfOpen
                      /\ fnErr[c] /= Nil) =>
            /\ cbState = CircuitBreakerOpen
            /\ lastStateChange = lastFailure

\* A failure after one success in half-open.
HalfOpenFailureReopensWitness ==
    \E c \in Callers :
        /\ Returning(c)
        /\ atInvoke[c].state = CircuitBreakerHalfOpen
        /\ atInvoke[c].hoSuccesses = 1
        /\ fnErr[c] /= Nil

\* C8: in state half-open the first success leaves the breaker half-open and
\* the second closes it with failureCount 0; the breaker is never closed from
\* half-open with fewer than two successes since it turned half-open.
HalfOpenClosesOnSecondSuccess ==
    \A c \in Callers :
        (Returning(c) /\ invoked[c] /\ atInvoke[c].state = CircuitBreakerHalfOpen) =>
            /\ (fnErr[c] = Nil /\ atInvoke[c].hoSuccesses = 0) =>
                  cbState = CircuitBreakerHalfOpen
            /\ (fnErr[c] = Nil /\ atInvoke[c].hoSuccesses = 1) =>
                  (cbState = CircuitBreakerClosed /\ failureCount = 0)
            /\ cbState = CircuitBreakerClosed =>
                  (fnErr[c] = Nil /\ hoSuccesses = 2)
            /\ atInvoke[c].hoSuccesses \in {0, 1}

\* The second success in half-open has closed a breaker that had failures.
HalfOpenClosesOnSecondSuccessWitness ==
    \E c \in Callers :
        /\ Returning(c)
        /\ atInvoke[c].state = CircuitBreakerHalfOpen
        /\ atInvoke[c].hoSuccesses = 1
        /\ atInvoke[c].failureCount > 0
        /\ fnErr[c] = Nil
        /\ cbState = CircuitBreakerClosed

\* C9: a call that invoked the operation returns the operation's outcome, and
\* Execute returns nil only if the operation was invoked and returned nil.
ReturnsOperationOutcome ==
    \A c \in Callers :
        Returning(c) =>
            /\ invoked[c] => ret[c] = fnErr[c]
            /\ ret[c] = Nil => (invoked[c] /\ fnErr[c] = Nil)
            /\ ~invoked[c] => ret[c] = OpenError

\* Execute returns the error of an operation that failed in state half-open.
ReturnsOperationOutcomeWitness ==
    \E c \in Callers :
        /\ Returning(c)
        /\ invoked[c]
        /\ atInvoke[c].state = CircuitBreakerHalfOpen
        /\ ret[c] = "publish failed"

\* C10: at most one caller is between taking the lock and releasing it, so at
\* most one wrapped operation is executing at any time.
InCriticalSection(c) == bpc[c] \in {"check", "fn", "unlock"}

MutualExclusion ==
    /\ Cardinality({c \in Callers : InCriticalSection(c)}) <= 1
    /\ Cardinality({c \in Callers : bpc[c] = "fn"}) <= 1
    /\ \A c \in Callers : InCriticalSection(c) <=> mu = c

\* The operation of one caller is running while another caller waits for the
\* lock.
MutualExclusionWitness ==
    \E c, d \in Callers :
        /\ bpc[c] = "fn"
        /\ bpc[d] = "lock"

\* C11: concurrent successful calls on a closed breaker are all counted: each
\* adds exactly one to the successCount it found, leaves failureCount and the
\* state alone, and once all calls have returned on a breaker that never
\* failed, successCount is the number of calls made.
AllReturned == \A c \in Callers : bpc[c] = "idle"

ConcurrentSuccessesCounted ==
    /\ \A c \in Callers :
          (Returning(c) /\ pre[c].state = CircuitBreakerClosed /\ fnErr[c] = Nil) =>
              /\ successCount = pre[c].successCount + 1
              /\ failureCount = pre[c].failureCount
              /\ cbState = CircuitBreakerClosed
    /\ (AllReturned /\ lastFailure = ZeroTime) =>
          /\ successCount = calls
          /\ failureCount = 0
          /\ cbState = CircuitBreakerClosed

\* A successful call returns on a breaker that never failed and has counted a
\* success already, while another caller is waiting for the lock.
ConcurrentSuccessesCountedWitness ==
    \E c, d \in Callers :
        /\ Returning(c)
        /\ fnErr[c] = Nil
        /\ pre[c].successCount > 0
        /\ lastFailure = ZeroTime
        /\ bpc[d] = "lock"

(***************************************************************************)
(* Event-router Lambda (lambdas/event-router): Handler, processRecord,     *)
(* compressEvent and sendToDLQ.  The Lambda is the caller Router of the    *)
(* circuit breaker above: circuitBreaker is a package variable that lives  *)
(* across invocations.                                                     *)
(*                                                                         *)
(* A stream record is its event id and whether json.Marshal accepts its    *)
(* NewImage.  The environment decides whether zstd.NewWriter, PutEvents    *)
(* and the SQS SendMessage succeed.  The clock advances between            *)
(* invocations; an invocation is short against the breaker's timeout.      *)
(***************************************************************************)
Router == 1

\* The records of a batch carry distinct event ids: here, their positions.
EventIDs == 1..MaxBatch

Records == [eventID : EventIDs, eventName : {"INSERT"}, marshalable : BOOLEAN]

Batches ==
    { b \in UNION { [1..n -> Records] : n \in 0..MaxBatch } :
        \A i \in 1..Len(b) : b[i].eventID = i }

NoBaseEvent == [eventID |-> None, eventType |-> None, sourceService |-> None,
                payload |-> None, marshalable |-> FALSE]
NoEnvelope == [eventID |-> None, eventType |-> None, sourceService |-> None,
               payload |-> None, marshalable |-> FALSE,
               targetRegion |-> None, compressionType |-> None]
NoJSON == [event_id |-> None, event_type |-> None, payload |-> None,
           target_region |-> None, compression_type |-> None]
NoMessage == [original_event |-> NoJSON, error_message |-> None,
              error_type |-> None, failure_count |-> 0, source_handler |-> None]

\* parseRecord: the BaseEvent of a stream record.
parseRecord(record) ==
    [eventID |-> record.eventID, eventType |-> record.eventName,
     sourceService |-> "dynamodb-streams", payload |-> "new_image",
     marshalable |-> record.marshalable]

\* The CrossRegionEvent processRecord builds around a copy of the base event.
NewCrossRegionEvent(event) ==
    [eventID |-> event.eventID, eventType |-> event.eventType,
     sourceService |-> event.sourceService, payload |-> event.payload,
     marshalable |-> event.marshalable,
     targetRegion |-> "partner", compressionType |-> "zstd"]

\* json.Marshal of a BaseEvent and of a CrossRegionEvent: the JSON document,
\* when the payload can be marshalled.
MarshalBaseEvent(event) ==
    [ok |-> event.marshalable,
     json |-> IF event.marshalable
              THEN [event_id |-> event.eventID, event_type |-> event.eventType,
                    payload |-> event.payload, target_region |-> None,
                    compression_type |-> None]
              ELSE NoJSON]

MarshalCrossRegionEvent(event) ==
    [ok |-> event.marshalable,
     json |-> IF event.marshalable
              THEN [event_id |-> event.eventID, event_type |-> event.eventType,
                    payload |-> event.payload,
                    target_region |-> event.targetRegion,
                    compression_type |-> event.compressionType]
              ELSE NoJSON]

\* compressEvent: the error it returns.
compressEvent(event, zstdOK) ==
    IF ~MarshalCrossRegionEvent(event).ok THEN "failed to marshal event"
    ELSE IF ~zstdOK THEN "failed to create compressor"
    ELSE Nil

\* The envelope after the compression step of processRecord.
AfterCompressKeepsType(event, err) ==
    IF err /= Nil
    THEN event
    ELSE [event EXCEPT !.payload = "compressed_data", !.marshalable = TRUE]

AfterCompress(event, err) ==
    IF err /= Nil
    THEN [event EXCEPT !.compressionType = "none"]
    ELSE [event EXCEPT !.payload = "compressed_data", !.marshalable = TRUE]

\* publisher.PublishCrossRegionEvent: the error it returns.
PublishCrossRegionEvent(event, putOK) ==
    IF ~MarshalCrossRegionEvent(event).ok THEN "failed to marshal event detail"
    ELSE IF ~putOK THEN "failed to publish events"
    ELSE Nil

\* "if err != nil" after Execute: the record goes to the dead-letter queue.
NeedsDLQExceptOpen(err) == err /= Nil /\ err /= OpenError

NeedsDLQ(err) == err /= Nil

\* sendToDLQ: whether a message reaches SendToDeadLetterQueue, the message,
\* and the error returned.
sendToDLQWrappedError(event, processingError, sinkOK) ==
    LET original == MarshalBaseEvent(event) IN
    IF ~original.ok
    THEN [sent |-> FALSE, message |-> NoMessage,
          err |-> "failed to marshal original event"]
    ELSE [sent |-> TRUE,
          message |-> [original_event |-> original.json,
                       error_message |-> "failed to route event",
                       error_type |-> "routing_failure",
                       failure_count |-> 1,
                       source_handler |-> "event-router"],
          err |-> IF sinkOK THEN Nil ELSE "failed to send to DLQ"]

sendToDLQ(event, processingError, sinkOK) ==
    LET original == MarshalBaseEvent(event) IN
    IF ~original.ok
    THEN [sent |-> FALSE, message |-> NoMessage,
          err |-> "failed to marshal original event"]
    ELSE [sent |-> TRUE,
          message |-> [original_event |-> original.json,
                       error_message |-> processingError,
                       error_type |-> "routing_failure",
                       failure_count |-> 1,
                       source_handler |-> "event-router"],
          err |-> IF sinkOK THEN Nil ELSE "failed to send to DLQ"]

\* What processRecord returns for the error Execute returned.
\* metrics.DLQMessages...Inc() of sendToDLQ, reached only when it returns nil.
DLQMessagesIncAlways(err) == 1

DLQMessagesInc(err) == IF err = Nil THEN 1 ELSE 0

RecordResultSwallowed(err) == Nil

RecordResult(err) == IF err /= Nil THEN "failed to route event" ELSE Nil

\* The range loop of Handler: the record after record i, whatever
\* processRecord returned for it.
NextIndexStopOnError(i, err) == IF err /= Nil THEN Len(batch) + 1 ELSE i + 1

NextIndex(i, err) == i + 1

\* What Handler returns.
HandlerResult(errs) ==
    IF Len(errs) > 0 THEN "failed to process records" ELSE Nil

InitRouter ==
    /\ batch = <<>>
    /\ idx = 1
    /\ rpc = "idle"
    /\ errors = <<>>
    /\ handlerResult = None
    /\ invocations = 0
    /\ baseEvent = NoBaseEvent
    /\ envelope = NoEnvelope
    /\ compressErr = None
    /\ execRet = None
    /\ publishedDetail = NoJSON
    /\ dlqCalls = 0
    /\ dlqMessage = NoMessage
    /\ dlqErr = None
    /\ dlqCounted = 0
    /\ recErr = None
    /\ processed = <<>>
    /\ routeFailures = 0
    /\ dlqFailures = 0

\* The Lambda runtime invokes Handler with a batch.  The breaker is the
\* package variable circuitBreaker, constructed once in init().
InvokeBody(b) ==
    /\ rpc \in {"idle", "returned"}
    /\ invocations < MaxInvocations
    /\ calls + Len(b) <= MaxCalls
    /\ invocations' = invocations + 1
    /\ batch' = b
    /\ idx' = 1
    /\ errors' = <<>>
    /\ processed' = <<>>
    /\ routeFailures' = 0
    /\ dlqFailures' = 0
    /\ handlerResult' = None
    /\ rpc' = "loop"
    /\ baseEvent' = NoBaseEvent
    /\ envelope' = NoEnvelope
    /\ compressErr' = None
    /\ execRet' = None
    /\ publishedDetail' = NoJSON
    /\ dlqCalls' = 0
    /\ dlqMessage' = NoMessage
    /\ dlqErr' = None
    /\ dlqCounted' = 0
    /\ recErr' = None
    /\ UNCHANGED <<consumerVars, procVars, libVars>>

InvokeWithNewBreaker(b) ==
    /\ InvokeBody(b)
    /\ cbState' = CircuitBreakerClosed
    /\ failureCount' = 0
    /\ successCount' = 0
    /\ lastFailure' = ZeroTime
    /\ lastStateChange' = now
    /\ hoSuccesses' = 0
    /\ UNCHANGED <<maxFailures, timeout, mu, now, bpc, fnErr, ret, invoked, pre,
                   atInvoke, calls, gauge>>

Invoke(b) ==
    /\ InvokeBody(b)
    /\ UNCHANGED breakerVars

\* processRecord up to the breaker: parseRecord, the envelope, compressEvent.
BuildEnvelope(zstdOK) ==
    /\ rpc = "loop"
    /\ idx <= Len(batch)
    /\ baseEvent' = parseRecord(batch[idx])
    /\ compressErr' = compressEvent(NewCrossRegionEvent(baseEvent'), zstdOK)
    /\ envelope' = AfterCompress(NewCrossRegionEvent(baseEvent'), compressErr')
    /\ rpc' = "execute"
    /\ UNCHANGED <<batch, idx, errors, handlerResult, invocations, execRet,
                   publishedDetail, dlqCalls, dlqMessage, dlqErr, dlqCounted, recErr,
                   processed, routeFailures, dlqFailures>>
    /\ UNCHANGED <<consumerVars, breakerVars, procVars, libVars>>

\* err = circuitBreaker.Execute(...): the call.
ExecuteCall ==
    /\ rpc = "execute"
    /\ CallBody(Router)
    /\ rpc' = "in_execute"
    /\ UNCHANGED <<batch, idx, errors, handlerResult, invocations, baseEvent,
                   envelope, compressErr, execRet, publishedDetail, dlqCalls,
                   dlqMessage, dlqErr, dlqCounted, recErr, processed, routeFailures,
                   dlqFailures>>
    /\ UNCHANGED <<consumerVars, procVars, libVars>>

\* The breaker runs fn: PublishCrossRegionEvent of the envelope.
Publish(putOK) ==
    /\ rpc = "in_execute"
    /\ LET err == PublishCrossRegionEvent(envelope, putOK) IN
          /\ CompleteBody(Router, err)
          /\ publishedDetail' = IF err = Nil
                                THEN MarshalCrossRegionEvent(envelope).json
                                ELSE publishedDetail
    /\ UNCHANGED <<batch, idx, rpc, errors, handlerResult, invocations, baseEvent,
                   envelope, compressErr, execRet, dlqCalls, dlqMessage, dlqErr, dlqCounted,
                   recErr, processed, routeFailures, dlqFailures>>
    /\ UNCHANGED <<consumerVars, procVars, libVars>>

\* Execute returns to processRecord; on success processRecord returns nil.
ExecuteReturn ==
    /\ rpc = "in_execute"
    /\ bpc[Router] = "unlock"
    /\ execRet' = ret[Router]
    /\ routeFailures' = IF execRet' /= Nil THEN routeFailures + 1 ELSE routeFailures
    /\ UnlockBody(Router)
    /\ IF NeedsDLQ(execRet')
       THEN /\ rpc' = "dlq"
            /\ UNCHANGED recErr
       ELSE /\ rpc' = "record_done"
            /\ recErr' = RecordResult(execRet')
    /\ UNCHANGED <<batch, idx, errors, handlerResult, invocations, baseEvent,
                   envelope, compressErr, publishedDetail, dlqCalls, dlqMessage,
                   dlqErr, dlqCounted, processed, dlqFailures>>
    /\ UNCHANGED <<consumerVars, procVars, libVars>>

\* sendToDLQ(ctx, baseEvent, err) and the error return of processRecord.
SendToDLQ(sinkOK) ==
    /\ rpc = "dlq"
    /\ LET sent == sendToDLQ(baseEvent, execRet, sinkOK) IN
          /\ dlqCalls' = dlqCalls + 1
          /\ dlqMessage' = sent.message
          /\ dlqErr' = sent.err
          /\ dlqCounted' = DLQMessagesInc(sent.err)
          /\ dlqFailures' = IF sent.err /= Nil THEN dlqFailures + 1 ELSE dlqFailures
    /\ recErr' = RecordResult(execRet)
    /\ rpc' = "record_done"
    /\ UNCHANGED <<batch, idx, errors, handlerResult, invocations, baseEvent,
                   envelope, compressErr, execRet, publishedDetail, processed,
                   routeFailures>>
    /\ UNCHANGED <<consumerVars, breakerVars, procVars, libVars>>

\* Back in the loop of Handler: collect the error, go to the next record.
RecordDone ==
    /\ rpc = "record_done"
    /\ errors' = IF recErr /= Nil THEN Append(errors, recErr) ELSE errors
    /\ processed' = Append(processed, baseEvent.eventID)
    /\ idx' = NextIndex(idx, recErr)
    /\ rpc' = "loop"
    /\ baseEvent' = NoBaseEvent
    /\ envelope' = NoEnvelope
    /\ compressErr' = None
    /\ execRet' = None
    /\ publishedDetail' = NoJSON
    /\ dlqCalls' = 0
    /\ dlqMessage' = NoMessage
    /\ dlqErr' = None
    /\ dlqCounted' = 0
    /\ recErr' = None
    /\ UNCHANGED <<batch, handlerResult, invocations, routeFailures, dlqFailures>>
    /\ UNCHANGED <<consumerVars, breakerVars, procVars, libVars>>

\* The loop is over: Handler returns.
HandlerReturn ==
    /\ rpc = "loop"
    /\ idx > Len(batch)
    /\ handlerResult' = HandlerResult(errors)
    /\ rpc' = "returned"
    /\ UNCHANGED <<batch, idx, errors, invocations, baseEvent, envelope,
                   compressErr, execRet, publishedDetail, dlqCalls, dlqMessage,
                   dlqErr, dlqCounted, recErr, processed, routeFailures, dlqFailures>>
    /\ UNCHANGED <<consumerVars, breakerVars, procVars, libVars>>

\* Time passes between two invocations.
Wait ==
    /\ rpc \in {"idle", "returned"}
    /\ Tick

NextRouter ==
    \/ \E b \in Batches : Invoke(b)
    \/ \E zstdOK \in BOOLEAN : BuildEnvelope(zstdOK)
    \/ ExecuteCall
    \/ Lock(Router)
    \/ Check(Router)
    \/ \E putOK \in BOOLEAN : Publish(putOK)
    \/ ExecuteReturn
    \/ \E sinkOK \in BOOLEAN : SendToDLQ(sinkOK)
    \/ RecordDone
    \/ HandlerReturn
    \/ Wait

(***************************************************************************)
(* pkg/awsutils: EventBridgePublisher.PublishEventBatch and publishEntries. *)
(* Event k of the call is the number k; an entry is the event it was built  *)
(* from.                                                                    *)
(***************************************************************************)
maxBatchSize == 10
maxRetry == 3

MarshalFailed == "failed to marshal event detail"
PublishFailed == "failed to publish batch"
CallError == "PutEvents error"
EntryError == "entry failed"

Range(s) == {s[k] : k \in 1..Len(s)}

\* The entries of s that are not in S, in the order of s.
Without(s, S) ==
    LET keep(e) == e \notin S
    IN  SelectSeq(s, keep)

RECURSIVE Flatten(_)
Flatten(ss) == IF ss = <<>> THEN <<>> ELSE Head(ss) \o Flatten(Tail(ss))

\* A publisher about to be called with n events, of which event b (if not 0)
\* cannot be marshalled.
PublisherCalledWith(n, b) ==
    /\ events = n
    /\ badEvent = b
    /\ pubpc = "idle"
    /\ batchStart = 0
    /\ entries = <<>>
    /\ attempt = 0
    /\ lastErr = None
    /\ pubResult = None
    /\ attemptsReported = 0
    /\ batches = <<>>
    /\ requests = <<>>
    /\ reportedOK = {}

InitPublisher ==
    \E n \in 0..MaxEvents : \E b \in 0..n : PublisherCalledWith(n, b)

\* The batch loop of PublishEventBatch from its head with index i, up to the
\* first PutEvents call of publishEntries or to the return.
BatchLoopOfSize(i, size) ==
    LET end == IF i + size > events THEN events ELSE i + size
        chunk == [k \in 1..(end - i) |-> i + k]
    IN  IF i >= events
        THEN /\ pubResult' = Nil
             /\ pubpc' = "done"
             /\ UNCHANGED <<batchStart, entries, attempt, lastErr, batches, reportedOK>>
        ELSE IF badEvent \in Range(chunk)
        THEN /\ pubResult' = MarshalFailed
             /\ pubpc' = "done"
             /\ batchStart' = i
             /\ UNCHANGED <<entries, attempt, lastErr, batches, reportedOK>>
        ELSE /\ batchStart' = i
             /\ entries' = chunk
             /\ attempt' = 0
             /\ lastErr' = None
             /\ batches' = Append(batches, chunk)
             /\ reportedOK' = {}
             /\ pubpc' = "attempt"
             /\ UNCHANGED pubResult

BatchLoopOverlapping(i) == BatchLoopOfSize(i, maxBatchSize + 1)

BatchLoop(i) == BatchLoopOfSize(i, maxBatchSize)

\* PublishEventBatch is called.
PublishEventBatch ==
    /\ pubpc = "idle"
    /\ IF events = 0
       THEN /\ pubResult' = Nil
            /\ pubpc' = "done"
            /\ UNCHANGED <<batchStart, entries, attempt, lastErr, batches, reportedOK>>
       ELSE BatchLoop(0)
    /\ UNCHANGED <<events, badEvent, attemptsReported, requests>>
    /\ UNCHANGED nonPublisherVars

\* The responses of PutEvents to a request: the entries it reports failed.
\* Every subset for a request of up to MaxEntries entries; none, all, or the
\* first entry alone for a longer one.
FailedSets(es) ==
    IF Len(es) <= MaxEntries
    THEN SUBSET Range(es)
    ELSE {{}, Range(es), {es[1]}}

\* The retry loop gave up, or goes round again.
RetryOrGiveUp ==
    IF attempt + 1 <= maxRetry
    THEN /\ pubpc' = "attempt"
         /\ UNCHANGED <<pubResult, attemptsReported>>
    ELSE /\ pubpc' = "done"
         /\ pubResult' = PublishFailed
         /\ attemptsReported' = maxRetry

\* One PutEvents call of publishEntries and what the loop does with its
\* output; when publishEntries returns, PublishEventBatch goes on to its
\* next batch or returns.
PutEventsBody(callErr, failedNow, resent) ==
    /\ pubpc = "attempt"
    /\ attempt <= maxRetry
    /\ requests' = Append(requests, entries)
    /\ IF callErr
       THEN /\ lastErr' = CallError
            /\ attempt' = attempt + 1
            /\ RetryOrGiveUp
            /\ UNCHANGED <<entries, reportedOK, batchStart, batches>>
       ELSE IF failedNow /= {}
       THEN /\ lastErr' = EntryError
            /\ entries' = resent
            /\ reportedOK' = reportedOK \cup (Range(entries) \ failedNow)
            /\ attempt' = attempt + 1
            /\ RetryOrGiveUp
            /\ UNCHANGED <<batchStart, batches>>
       ELSE /\ BatchLoop(batchStart + maxBatchSize)
            /\ UNCHANGED attemptsReported
    /\ UNCHANGED <<events, badEvent>>
    /\ UNCHANGED nonPublisherVars

PutEventsResendingAll(callErr, failedNow) ==
    PutEventsBody(callErr, failedNow, entries)

PutEvents(callErr, failedNow) ==
    PutEventsBody(callErr, failedNow, Without(entries, Range(entries) \ failedNow))

NextPublisher ==
    \/ PublishEventBatch
    \/ \E callErr \in BOOLEAN : \E failedNow \in FailedSets(entries) :
          PutEvents(callErr, failedNow)

IdlePublisher == PublisherCalledWith(0, 0)

(***************************************************************************)
(* lambdas/health-checker: determineHealthStatus and aggregateHealth.       *)
(* A check is a HealthCheckEvent: its region, status, the statuses of its   *)
(* dependencies and its error messages.                                     *)
(***************************************************************************)
StatusHealthy == "healthy"
StatusDegraded == "degraded"
StatusUnhealthy == "unhealthy"
Statuses == {StatusHealthy, StatusDegraded, StatusUnhealthy}

determineHealthStatusDegradedFirst(dependencies) ==
    LET hasUnhealthy == \E k \in 1..Len(dependencies) : dependencies[k] = StatusUnhealthy
        hasDegraded == \E k \in 1..Len(dependencies) : dependencies[k] = StatusDegraded
    IN  IF hasDegraded THEN StatusDegraded
        ELSE IF hasUnhealthy THEN StatusUnhealthy
        ELSE StatusHealthy

determineHealthStatus(dependencies) ==
    LET hasUnhealthy == \E k \in 1..Len(dependencies) : dependencies[k] = StatusUnhealthy
        hasDegraded == \E k \in 1..Len(dependencies) : dependencies[k] = StatusDegraded
    IN  IF hasUnhealthy THEN StatusUnhealthy
        ELSE IF hasDegraded THEN StatusDegraded
        ELSE StatusHealthy

\* The append loops of aggregateHealth.
RECURSIVE AllDeps(_)
AllDeps(cs) == IF cs = <<>> THEN <<>> ELSE Head(cs).dependencies \o AllDeps(Tail(cs))

RECURSIVE AllErrors(_)
AllErrors(cs) == IF cs = <<>> THEN <<>> ELSE Head(cs).errorMessages \o AllErrors(Tail(cs))

aggregateHealth(cs) ==
    IF Len(cs) = 0
    THEN [region |-> "", status |-> StatusUnhealthy, dependencies |-> <<>>,
          errorMessages |-> <<>>]
    ELSE [region |-> "multi-region",
          status |-> determineHealthStatus(AllDeps(cs)),
          dependencies |-> AllDeps(cs),
          errorMessages |-> AllErrors(cs)]

NoHealth ==
    [region |-> "none", status |-> "none", dependencies |-> <<>>,
     errorMessages |-> <<>>]

RegionOf(k) == IF k = 1 THEN "us-west-2" ELSE "us-east-1"

DependencyLists == UNION {[1..n -> Statuses] : n \in 0..MaxDeps}

\* The checks handed to aggregateHealth: the status of a check is the status
\* of its dependencies, as checkRegionHealth sets it; a check carries no error
\* message or one.
CheckLists ==
    UNION {[1..n -> [dependencies : DependencyLists, hasError : BOOLEAN]] :
              n \in 0..MaxChecks}

HealthCheckEvents(l) ==
    [k \in 1..Len(l) |->
        [region |-> RegionOf(k),
         status |-> determineHealthStatus(l[k].dependencies),
         dependencies |-> l[k].dependencies,
         errorMessages |-> IF l[k].hasError THEN <<"dependency check failed">>
                           ELSE <<>>]]

HealthCalledWith(cs) ==
    /\ checks = cs
    /\ checksIn = cs
    /\ aggregated = NoHealth

InitHealth ==
    \E l \in CheckLists : HealthCalledWith(HealthCheckEvents(l))

\* aggregateHealth(checks): the result is checks[0] itself, overwritten.
Aggregate ==
    /\ aggregated = NoHealth
    /\ aggregated' = aggregateHealth(checks)
    /\ checks' = IF Len(checks) = 0 THEN checks
                 ELSE [checks EXCEPT ![1] = aggregateHealth(checks)]
    /\ UNCHANGED checksIn
    /\ UNCHANGED nonHealthVars

NextHealth == Aggregate

IdleHealth == HealthCalledWith(<<>>)

(***************************************************************************)
(* lambdas/health-checker: Handler and checkRegionHealth.  The handler     *)
(* starts one goroutine per region; each runs checkRegionHealth, which     *)
(* starts one goroutine per dependency, and sends what it returns on a     *)
(* channel.                                                                *)
(***************************************************************************)
Regions == {RegionOf(1), RegionOf(2)}
DependencyNames == <<"dynamodb", "eventbridge", "sqs">>
Dependencies == {DependencyNames[j] : j \in 1..Len(DependencyNames)}
NoHolder == "nobody"

\* What a dependency check returns: unhealthy, degraded or healthy.
CheckOutcomes ==
    {<<StatusHealthy, StatusUnhealthy, StatusDegraded>>[k] : k \in 1..MaxOutcomes}

\* Where the handler is after its k-th go statement, and where
\* checkRegionHealth is before its j-th.
AfterGo(k) == IF k = 1 THEN "go_partner" ELSE "wait"
GoDependency(j) == <<"go_dynamodb", "go_eventbridge", "go_sqs", "wait">>[j]

\* wg.Wait() returns.
WaitReturnsAtOnce(counter) == TRUE

WaitReturns(counter) == counter = 0

\* The error checkRegionHealth returns with its result.
checkRegionHealthErr(h) == Nil

InitHandler ==
    /\ hpc = "go_current"
    /\ hwg = 0
    /\ healthChecks = <<>>
    /\ errorsChan = <<>>
    /\ closedChans = {}
    /\ results = <<>>
    /\ checkErrors = <<>>
    /\ handlerAggregated = NoHealth
    /\ handlerReturn = None
    /\ gpc = [r \in Regions |-> "unstarted"]
    /\ sentBy = [r \in Regions |-> 0]
    /\ health = [r \in Regions |->
                    [region |-> r, status |-> "", dependencies |-> <<>>,
                     errorMessages |-> <<>>]]
    /\ appended = [r \in Regions |-> <<>>]
    /\ rwg = [r \in Regions |-> 0]
    /\ rmu = [r \in Regions |-> NoHolder]
    /\ dpc = [r \in Regions |-> [d \in Dependencies |-> "unstarted"]]
    /\ dep = [r \in Regions |-> [d \in Dependencies |-> None]]

\* wg.Add(1); go func() { ... checkRegionHealth(ctx, region, clients) ... }()
SpawnRegion(k) ==
    /\ hpc = IF k = 1 THEN "go_current" ELSE "go_partner"
    /\ hwg' = hwg + 1
    /\ gpc' = [gpc EXCEPT ![RegionOf(k)] = GoDependency(1)]
    /\ hpc' = AfterGo(k)
    /\ UNCHANGED <<healthChecks, errorsChan, closedChans, results, checkErrors,
                   handlerAggregated, handlerReturn, sentBy, health, appended,
                   rwg, rmu, dpc, dep>>
    /\ UNCHANGED nonHandlerVars

\* checkRegionHealth: wg.Add(1); go func() { ... }() for the j-th dependency.
SpawnDependency(r, j) ==
    /\ gpc[r] = GoDependency(j)
    /\ rwg' = [rwg EXCEPT ![r] = @ + 1]
    /\ dpc' = [dpc EXCEPT ![r][DependencyNames[j]] = "check"]
    /\ gpc' = [gpc EXCEPT ![r] = GoDependency(j + 1)]
    /\ UNCHANGED <<hpc, hwg, healthChecks, errorsChan, closedChans, results,
                   checkErrors, handlerAggregated, handlerReturn, sentBy, health,
                   appended, rmu, dep>>
    /\ UNCHANGED nonHandlerVars

\* dep := checkDynamoDB(ctx, clients), checkEventBridge or checkSQS.
CheckDependency(r, d, s) ==
    /\ dpc[r][d] = "check"
    /\ dep' = [dep EXCEPT ![r][d] = s]
    /\ dpc' = [dpc EXCEPT ![r][d] = "lock"]
    /\ UNCHANGED <<hpc, hwg, healthChecks, errorsChan, closedChans, results,
                   checkErrors, handlerAggregated, handlerReturn, gpc, sentBy,
                   health, appended, rwg, rmu>>
    /\ UNCHANGED nonHandlerVars

\* mu.Lock()
LockDependencies(r, d) ==
    /\ dpc[r][d] = "lock"
    /\ rmu[r] = NoHolder
    /\ rmu' = [rmu EXCEPT ![r] = d]
    /\ dpc' = [dpc EXCEPT ![r][d] = "append"]
    /\ UNCHANGED <<hpc, hwg, healthChecks, errorsChan, closedChans, results,
                   checkErrors, handlerAggregated, handlerReturn, gpc, sentBy,
                   health, appended, rwg, dep>>
    /\ UNCHANGED nonHandlerVars

\* The appends under the lock, mu.Unlock() and the deferred wg.Done().
AppendDependency(r, d) ==
    /\ dpc[r][d] = "append"
    /\ rmu[r] = d
    /\ health' = [health EXCEPT
                    ![r].dependencies = Append(@, dep[r][d]),
                    ![r].errorMessages =
                        IF dep[r][d] /= StatusHealthy
                        THEN Append(@, <<d, dep[r][d]>>) ELSE @]
    /\ appended' = [appended EXCEPT ![r] = Append(@, d)]
    /\ rmu' = [rmu EXCEPT ![r] = NoHolder]
    /\ rwg' = [rwg EXCEPT ![r] = @ - 1]
    /\ dpc' = [dpc EXCEPT ![r][d] = "done"]
    /\ UNCHANGED <<hpc, hwg, healthChecks, errorsChan, closedChans, results,
                   checkErrors, handlerAggregated, handlerReturn, gpc, sentBy,
                   dep>>
    /\ UNCHANGED nonHandlerVars

\* checkRegionHealth: wg.Wait(), the status, return health, nil.
RegionChecked(r) ==
    /\ gpc[r] = "wait"
    /\ WaitReturns(rwg[r])
    /\ health' = [health EXCEPT
                    ![r].status = determineHealthStatus(health[r].dependencies)]
    /\ gpc' = [gpc EXCEPT ![r] = "send"]
    /\ UNCHANGED <<hpc, hwg, healthChecks, errorsChan, closedChans, results,
                   checkErrors, handlerAggregated, handlerReturn, sentBy,
                   appended, rwg, rmu, dpc, dep>>
    /\ UNCHANGED nonHandlerVars

\* if err != nil { errors <- ...; return }; healthChecks <- health.  A send on
\* a full channel waits; a send on a closed channel panics.
SendResult(r) ==
    /\ gpc[r] = "send"
    /\ LET err == checkRegionHealthErr(health[r])
           ch == IF err /= Nil THEN "errors" ELSE "healthChecks"
           buffer == IF err /= Nil THEN errorsChan ELSE healthChecks
       IN  IF ch \in closedChans
           THEN /\ gpc' = [gpc EXCEPT ![r] = "panic"]
                /\ UNCHANGED <<healthChecks, errorsChan, sentBy>>
           ELSE /\ Len(buffer) < ChannelCapacity
                /\ healthChecks' = IF err /= Nil THEN healthChecks
                                   ELSE Append(healthChecks, health[r])
                /\ errorsChan' = IF err /= Nil THEN Append(errorsChan, r)
                                 ELSE errorsChan
                /\ sentBy' = [sentBy EXCEPT ![r] = @ + 1]
                /\ gpc' = [gpc EXCEPT ![r] = "deferred"]
    /\ UNCHANGED <<hpc, hwg, closedChans, results, checkErrors,
                   handlerAggregated, handlerReturn, health, appended, rwg, rmu,
                   dpc, dep>>
    /\ UNCHANGED nonHandlerVars

\* defer wg.Done()
RegionDone(r) ==
    /\ gpc[r] = "deferred"
    /\ hwg' = hwg - 1
    /\ gpc' = [gpc EXCEPT ![r] = "done"]
    /\ UNCHANGED <<hpc, healthChecks, errorsChan, closedChans, results,
                   checkErrors, handlerAggregated, handlerReturn, sentBy, health,
                   appended, rwg, rmu, dpc, dep>>
    /\ UNCHANGED nonHandlerVars

\* wg.Wait()
HandlerWait ==
    /\ hpc = "wait"
    /\ WaitReturns(hwg)
    /\ hpc' = "close_healthChecks"
    /\ UNCHANGED <<hwg, healthChecks, errorsChan, closedChans, results,
                   checkErrors, handlerAggregated, handlerReturn, gpc, sentBy,
                   health, appended, rwg, rmu, dpc, dep>>
    /\ UNCHANGED nonHandlerVars

\* close(healthChecks)
CloseHealthChecks ==
    /\ hpc = "close_healthChecks"
    /\ closedChans' = closedChans \cup {"healthChecks"}
    /\ hpc' = "close_errors"
    /\ UNCHANGED <<hwg, healthChecks, errorsChan, results, checkErrors,
                   handlerAggregated, handlerReturn, gpc, sentBy, health,
                   appended, rwg, rmu, dpc, dep>>
    /\ UNCHANGED nonHandlerVars

\* close(errors)
CloseErrors ==
    /\ hpc = "close_errors"
    /\ closedChans' = closedChans \cup {"errors"}
    /\ hpc' = "collect_results"
    /\ UNCHANGED <<hwg, healthChecks, errorsChan, results, checkErrors,
                   handlerAggregated, handlerReturn, gpc, sentBy, health,
                   appended, rwg, rmu, dpc, dep>>
    /\ UNCHANGED nonHandlerVars

\* for health := range healthChecks: one iteration, or the end of the loop
\* once the channel is closed and empty.
CollectResult ==
    /\ hpc = "collect_results"
    /\ IF healthChecks /= <<>>
       THEN /\ results' = Append(results, Head(healthChecks))
            /\ healthChecks' = Tail(healthChecks)
            /\ UNCHANGED hpc
       ELSE /\ "healthChecks" \in closedChans
            /\ hpc' = "collect_errors"
            /\ UNCHANGED <<results, healthChecks>>
    /\ UNCHANGED <<hwg, errorsChan, closedChans, checkErrors, handlerAggregated,
                   handlerReturn, gpc, sentBy, health, appended, rwg, rmu, dpc,
                   dep>>
    /\ UNCHANGED nonHandlerVars

\* for err := range errors
CollectError ==
    /\ hpc = "collect_errors"
    /\ IF errorsChan /= <<>>
       THEN /\ checkErrors' = Append(checkErrors, Head(errorsChan))
            /\ errorsChan' = Tail(errorsChan)
            /\ UNCHANGED hpc
       ELSE /\ "errors" \in closedChans
            /\ hpc' = "aggregate"
            /\ UNCHANGED <<checkErrors, errorsChan>>
    /\ UNCHANGED <<hwg, healthChecks, closedChans, results, handlerAggregated,
                   handlerReturn, gpc, sentBy, health, appended, rwg, rmu, dpc,
                   dep>>
    /\ UNCHANGED nonHandlerVars

\* aggregateHealth(results), which overwrites results[0], and the return.
HandlerAggregate ==
    /\ hpc = "aggregate"
    /\ handlerAggregated' = aggregateHealth(results)
    /\ results' = IF Len(results) = 0 THEN results
                  ELSE [results EXCEPT ![1] = aggregateHealth(results)]
    /\ handlerReturn' = IF Len(checkErrors) > 0 THEN "error" ELSE Nil
    /\ hpc' = "returned"
    /\ UNCHANGED <<hwg, healthChecks, errorsChan, closedChans, checkErrors, gpc,
                   sentBy, health, appended, rwg, rmu, dpc, dep>>
    /\ UNCHANGED nonHandlerVars

NextHandler ==
    \/ \E k \in 1..2 : SpawnRegion(k)
    \/ \E r \in Regions, j \in 1..Len(DependencyNames) : SpawnDependency(r, j)
    \/ \E r \in Regions, d \in Dependencies, s \in CheckOutcomes :
          CheckDependency(r, d, s)
    \/ \E r \in Regions, d \in Dependencies : LockDependencies(r, d)
    \/ \E r \in Regions, d \in Dependencies : AppendDependency(r, d)
    \/ \E r \in Regions : RegionChecked(r)
    \/ \E r \in Regions : SendResult(r)
    \/ \E r \in Regions : RegionDone(r)
    \/ HandlerWait
    \/ CloseHealthChecks
    \/ CloseErrors
    \/ CollectResult
    \/ CollectError
    \/ HandlerAggregate

IdleHandler == InitHandler

\* The parts of the system that a specification leaves at rest.
IdleLog ==
    [p \in Partitions |->
        [i \in 1..LogLen |->
            [format |-> "json", operation |-> OperationInsert, before |-> "empty",
             after |-> "nonempty", primaryKeys |-> "nonempty", convertible |-> FALSE]]]

IdleProcessor ==
    /\ InitProcessor
    /\ procCodec = FALSE
    /\ procValue = IdleLog[1][1]

IdleBreaker ==
    /\ InitBreaker
    /\ maxFailures = MaxMaxFailures
    /\ timeout = MaxOpenTimeout

IdleLibrary ==
    /\ IdlePublisher
    /\ IdleHealth
    /\ gotState = None
    /\ healed = FALSE
    /\ IdleHandler

\* The event-router alone.
InitRouterAlone ==
    /\ InitConsumer
    /\ log = IdleLog
    /\ IdleBreaker
    /\ IdleProcessor
    /\ InitRouter
    /\ IdleLibrary

SpecRouter == InitRouterAlone /\ [][NextRouter]_vars

\* The breaker alone; the consumer does not run.
InitBreakerAlone ==
    /\ InitConsumer
    /\ log = IdleLog
    /\ InitBreaker
    /\ IdleProcessor
    /\ InitRouter
    /\ IdleLibrary

SpecBreaker == InitBreakerAlone /\ [][NextBreaker]_vars

SpecBreakerObserved == InitBreakerAlone /\ [][NextBreakerObserved]_vars

\* C26, as the specification states it: the error of a rejection tells a
\* rejection from an error of the wrapped operation.
RejectionIsDistinctError ==
    \A c \in Callers :
        Returning(c) => (ret[c] = OpenError <=> ~invoked[c])

\* C27: a breaker is constructed closed with both counters 0; its fields
\* change only in a step of an Execute call that holds cb.mu; GetState
\* returns the state the breaker is in and changes nothing.
FieldsChangeOnlyInExecute ==
    /\ [](calls = 0 =>
             /\ cbState = CircuitBreakerClosed
             /\ failureCount = 0
             /\ successCount = 0)
    /\ [][BreakerFields' /= BreakerFields =>
             /\ mu /= 0
             /\ bpc[mu] \in {"check", "fn"}
             /\ bpc'[mu] /= bpc[mu]
             /\ gotState' = gotState]_vars
    /\ [][gotState' /= gotState =>
             /\ gotState' = cbState
             /\ breakerVars' = breakerVars]_vars

\* GetState has returned open for a breaker whose timeout has elapsed: the
\* breaker is still open.
FieldsChangeOnlyInExecuteWitness ==
    /\ gotState = CircuitBreakerOpen
    /\ cbState = CircuitBreakerOpen
    /\ TimeoutElapsed(now)
    /\ mu = 0

(***************************************************************************)
(* Properties of the consumption loop.                                     *)
(***************************************************************************)

\* C1: a commit is issued for a message only after the processor returned
\* success for that same message in the same iteration, and an iteration in
\* which the processor returned an error issues no commit.
CommitOnlyAfterSuccess ==
    /\ (cpc = "commit" \/ iterCommit /= NoMsg) =>
          /\ iterProc.err = Nil
          /\ iterProc.msg = cur
          /\ iterCommit \in {NoMsg, cur}
    /\ (iterProc.err \notin {Nil, None}) =>
          /\ iterCommit = NoMsg
          /\ cpc /= "commit"

\* An iteration has committed the message it processed, after an earlier
\* message failed without a commit.
CommitOnlyAfterSuccessWitness ==
    /\ iterCommit /= NoMsg
    /\ iterProc.msg = iterCommit
    /\ failed /= {}

\* C2: every message below the committed offset of its partition has been
\* processed successfully at least once (the committed offset never passes a
\* message whose processing failed).
AtLeastOnce ==
    \A p \in Partitions :
        \A o \in 0..(committed[p] - 1) : <<p, o>> \in processedOK

\* C3: after the processor failed on a message, the next message of that
\* partition handed to the processor is the same message.
FailedMessageRedeliveredFirst ==
    \A p \in Partitions :
        (cpc = "process" /\ cur[1] = p /\ lastOutcome[p].err \notin {Nil, None})
            => cur[2] = lastOutcome[p].offset

\* C20: Consume returns only when the context is cancelled or the subscription
\* failed; after a read error, a processor error or a commit error the loop is
\* at its next iteration, not returned.
ConsumeReturnsOnlyOnCancelOrSubscribe ==
    /\ cpc = "returned" =>
          \/ (consumeResult = "context canceled" /\ cancelled)
          \/ (consumeResult = "failed to subscribe to topics" /\ iterErr = None)
    /\ cpc /= "returned" => consumeResult = None
    /\ (iterErr \notin {Nil, None}) => cpc = "select"

\* The loop is at its next iteration after a commit error.
ConsumeReturnsOnlyOnCancelOrSubscribeWitness ==
    /\ cpc = "select"
    /\ iterErr = "failed to commit offset"
    /\ failed /= {}

LoopStep ==
    \/ Subscribe
    \/ Select
    \/ ReadNothing
    \/ \E p \in Partitions : ReadMessage(p)
    \/ ProcessMessage
    \/ CommitMessage

ExitAfterConsumeReturned ==
    [][(cpc' = "exited" /\ cpc /= "exited") => cpc = "returned"]_vars

\* C23: within one partition the messages are handed to the processor in
\* offset order, each poll delivering the message at the fetch position, which
\* every earlier message of the partition has been handed to the processor
\* before; the committed offset of a partition only grows, by the commit of
\* the message just processed.
OrderWithinPartition ==
    [][/\ (cpc = "read" /\ cpc' = "process") =>
              /\ cur'[2] = position[cur'[1]]
              /\ position' = [position EXCEPT ![cur'[1]] = @ + 1]
              /\ \A o \in 0..(cur'[2] - 1) :
                    <<cur'[1], o>> \in processedOK \cup failed
       /\ \A p \in Partitions :
              committed'[p] /= committed[p] =>
                  /\ cpc = "commit"
                  /\ cur = <<p, committed'[p] - 1>>
                  /\ committed'[p] > committed[p]]_vars

\* A whole partition has been processed and committed in order.
OrderWithinPartitionWitness ==
    \E p \in Partitions :
        /\ committed[p] = LogLen
        /\ LogLen > 1
        /\ \A o \in 0..(LogLen - 1) : <<p, o>> \in processedOK
        /\ cpc = "select"
        /\ iterCommit = <<p, LogLen - 1>>

InitConsumerAlone ==
    /\ InitConsumer
    /\ IdleBreaker
    /\ IdleProcessor
    /\ InitRouter
    /\ IdleLibrary

SpecConsumer == InitConsumerAlone /\ [][NextConsumer]_vars

\* The consumer on one topic, with a goroutine that keeps running: every call
\* the loop makes returns (ReadMessage after its timeout at the latest).
InitConsumerFair ==
    /\ InitConsumer
    /\ \A p \in Partitions : \A i \in 1..LogLen :
          (log[p][i].format = "json" <=> i % 2 = 1) /\ log[p][i].operation /= "UNKNOWN"
    /\ IdleBreaker
    /\ IdleProcessor
    /\ InitRouter
    /\ IdleLibrary

SpecConsumerFair ==
    InitConsumerFair /\ [][NextConsumer]_vars /\ WF_vars(LoopStep)

(***************************************************************************)
(* Properties of the CDC processor.                                        *)
(***************************************************************************)
ParseSucceeded == ppc \in {"dispatch", "done"} /\ procParse.err = Nil

\* C17: Process routes strictly by the operation tag: for INSERT, UPDATE,
\* DELETE and REFRESH exactly the matching handler is invoked, once, and for
\* any other tag no handler is invoked and the error is the unknown-operation
\* error.  No handler runs before the switch or after a parse error.
DispatchByOperationTag ==
    /\ ppc /= "done" => procHandlers = <<>>
    /\ (ppc = "done" /\ procParse.err /= Nil) => procHandlers = <<>>
    /\ (ppc = "done" /\ procParse.err = Nil) =>
          LET operation == procParse.event.operation IN
          /\ operation = OperationInsert => procHandlers = <<"handleInsert">>
          /\ operation = OperationUpdate => procHandlers = <<"handleUpdate">>
          /\ operation = OperationDelete => procHandlers = <<"handleDelete">>
          /\ operation = OperationRefresh => procHandlers = <<"handleRefresh">>
          /\ operation \in {OperationInsert, OperationUpdate, OperationDelete,
                            OperationRefresh} => procErr = Nil
          /\ operation \notin {OperationInsert, OperationUpdate, OperationDelete,
                               OperationRefresh} =>
                /\ procHandlers = <<>>
                /\ procErr = "failed to process CDC event: unknown operation"

DispatchByOperationTagWitness ==
    /\ ppc = "done"
    /\ procParse.err = Nil
    /\ procParse.event.operation = "UNKNOWN"
    /\ procHandlers = <<>>
    /\ procErr = "failed to process CDC event: unknown operation"

\* C18: parsing tries JSON first and a JSON success is returned without
\* consulting the codec; the codec is consulted only when JSON fails and a
\* codec is registered; when JSON fails and no codec is registered, or the
\* schema decoding fails, the parse returns an error and no event.
JsonFirstThenCodec ==
    ppc \in {"dispatch", "done"} =>
        /\ procValue.format = "json" =>
              /\ procParse.err = Nil
              /\ ~procParse.codecUsed
              /\ procParse.event /= NoEvent
        /\ procParse.codecUsed => (procValue.format /= "json" /\ procCodec)
        /\ (procValue.format /= "json" /\ procCodec) => procParse.codecUsed
        /\ (procValue.format /= "json" /\ ~procCodec) =>
              /\ procParse.err /= Nil
              /\ procParse.event = NoEvent
        /\ (procValue.format /= "json" /\ procCodec
                /\ ~(procValue.format = "avro" /\ procValue.convertible)) =>
              /\ procParse.err /= Nil
              /\ procParse.event = NoEvent
        /\ (procValue.format = "avro" /\ procValue.convertible /\ procCodec) =>
              /\ procParse.err = Nil
              /\ procParse.event /= NoEvent
        /\ procParse.err /= Nil => (ppc = "done" /\ procErr = "failed to parse CDC event")

JsonFirstThenCodecWitness ==
    /\ ppc = "done"
    /\ procCodec
    /\ procValue.format = "json"
    /\ procParse.err = Nil
    /\ ~procParse.codecUsed

\* The shape invariant of a CDC event.
ShapeInvariant(event) ==
    /\ event.primaryKeys = "nonempty"
    /\ event.operation = OperationInsert =>
          (event.before = "empty" /\ event.after = "nonempty")
    /\ event.operation = OperationDelete =>
          (event.after = "empty" /\ event.before = "nonempty")
    /\ event.operation = OperationUpdate =>
          (event.before = "nonempty" /\ event.after = "nonempty")

\* C19, as the specification states it: every event that a successful parse
\* produced satisfies the shape invariant.
ParsedEventWellShaped ==
    ParseSucceeded => ShapeInvariant(procParse.event)

\* C19: a successful parse returns the operation, before, after and primary
\* keys exactly as the payload carries them, so the shape invariant holds of
\* the parsed event exactly when it holds of the payload; the event is handed
\* to the handler of its operation whether or not the invariant holds.
ParsedEventMirrorsPayload ==
    ParseSucceeded =>
        /\ procParse.event.operation = procValue.operation
        /\ procParse.event.before = procValue.before
        /\ procParse.event.after = procValue.after
        /\ procParse.event.primaryKeys = procValue.primaryKeys
        /\ ShapeInvariant(procParse.event) <=>
              ShapeInvariant([operation |-> procValue.operation,
                              before |-> procValue.before,
                              after |-> procValue.after,
                              primaryKeys |-> procValue.primaryKeys])
        /\ (ppc = "done" /\ procValue.operation = OperationInsert) =>
              procHandlers = <<"handleInsert">>

ParsedEventMirrorsPayloadWitness ==
    /\ ppc = "done"
    /\ procParse.err = Nil
    /\ procParse.event.operation = OperationInsert
    /\ procParse.event.after = "empty"
    /\ procParse.event.before = "nonempty"
    /\ procParse.event.primaryKeys = "empty"
    /\ procHandlers = <<"handleInsert">>

\* The processor alone.
InitProcessorAlone ==
    /\ InitConsumer
    /\ log = IdleLog
    /\ IdleBreaker
    /\ InitProcessor
    /\ InitRouter
    /\ IdleLibrary

SpecProcessor == InitProcessorAlone /\ [][NextProcessor]_vars

(***************************************************************************)
(* Properties of the event-router.                                         *)
(***************************************************************************)
InRecord == rpc \in {"execute", "in_execute", "dlq", "record_done"}

\* C12: for every record exactly one of two outcomes occurs: the publish
\* through the breaker succeeded and no dead-letter record exists, or the
\* breaker returned an error (a failed operation or the circuit-open
\* rejection) and sendToDLQ was called exactly once for the record.
ExactlyOneOutcomePerRecord ==
    /\ dlqCalls <= 1
    /\ rpc = "dlq" => (execRet \notin {Nil, None} /\ dlqCalls = 0)
    /\ rpc = "record_done" =>
          \/ /\ execRet = Nil
             /\ publishedDetail /= NoJSON
             /\ dlqCalls = 0
             /\ dlqMessage = NoMessage
          \/ /\ execRet \notin {Nil, None}
             /\ publishedDetail = NoJSON
             /\ dlqCalls = 1

ExactlyOneOutcomePerRecordWitness ==
    /\ rpc = "record_done"
    /\ execRet = OpenError
    /\ dlqCalls = 1
    /\ dlqMessage /= NoMessage

\* C13, as the specification states it: once a publish failure has been
\* handed to the dead-letter queue, neither processRecord nor Handler reports
\* a failure for it.
PublishFailureNotReported ==
    /\ (rpc = "record_done" /\ dlqCalls = 1) => recErr = Nil
    /\ (rpc = "returned" /\ routeFailures > 0) => handlerResult = Nil

\* C13: a publish failure (a failed publish or the circuit-open rejection) is
\* handed to the dead-letter queue and is also reported: processRecord
\* returns "failed to route event" for the record, and Handler, after it has
\* processed every record of the batch, returns an error exactly when the
\* breaker returned an error for at least one record.
PublishFailureReported ==
    /\ rpc = "record_done" =>
          /\ execRet /= Nil => (dlqCalls = 1 /\ recErr = "failed to route event")
          /\ execRet = Nil => recErr = Nil
    /\ rpc \in {"loop", "returned"} => Len(errors) = routeFailures
    /\ rpc = "returned" =>
          /\ Len(processed) = Len(batch)
          /\ handlerResult = Nil <=> routeFailures = 0
          /\ routeFailures > 0 => handlerResult = "failed to process records"

PublishFailureReportedWitness ==
    /\ rpc = "returned"
    /\ Len(batch) > 1
    /\ routeFailures = 1
    /\ dlqFailures = 0
    /\ handlerResult = "failed to process records"

\* C14: Handler processes every record of the batch exactly once and in
\* order, whatever happened to the records before it: the records processed
\* so far are always the first records of the batch, in order, the loop is at
\* the record after them, and Handler returns only after the last one.
EveryRecordOnceInOrder ==
    /\ Len(processed) <= Len(batch)
    /\ \A i \in 1..Len(processed) : processed[i] = batch[i].eventID
    /\ rpc = "loop" => idx = Len(processed) + 1
    /\ InRecord =>
          /\ idx = Len(processed) + 1
          /\ idx <= Len(batch)
          /\ baseEvent.eventID = batch[idx].eventID
    /\ rpc = "returned" => Len(processed) = Len(batch)

EveryRecordOnceInOrderWitness ==
    /\ rpc = "returned"
    /\ Len(batch) > 1
    /\ Len(processed) = Len(batch)
    /\ routeFailures = Len(batch)
    /\ dlqFailures = Len(batch)

\* C15: a compression failure does not abort the record: the envelope's
\* compressionType becomes "none" and its payload stays the original one, the
\* breaker is still called for the record, and a published envelope has
\* compressionType "zstd" exactly when compression succeeded.
CompressionFailureDegrades ==
    /\ InRecord =>
          /\ compressErr /= None
          /\ compressErr /= Nil =>
                /\ envelope.compressionType = "none"
                /\ envelope.payload = baseEvent.payload
          /\ compressErr = Nil =>
                /\ envelope.compressionType = "zstd"
                /\ envelope.payload = "compressed_data"
    /\ rpc \in {"dlq", "record_done"} => execRet /= None
    /\ publishedDetail /= NoJSON =>
          (publishedDetail.compression_type = "zstd" <=> compressErr = Nil)

CompressionFailureDegradesWitness ==
    /\ rpc = "record_done"
    /\ compressErr = "failed to create compressor"
    /\ publishedDetail /= NoJSON
    /\ publishedDetail.compression_type = "none"
    /\ publishedDetail.payload = "new_image"

\* C16: every dead-letter record has errorType "routing_failure",
\* failureCount 1, sourceHandler "event-router", the message of the error the
\* breaker returned as errorMessage, and the serialized original base event
\* (not the envelope) as payload.
DeadLetterRecordShape ==
    dlqMessage /= NoMessage =>
        /\ dlqMessage.error_type = "routing_failure"
        /\ dlqMessage.failure_count = 1
        /\ dlqMessage.source_handler = "event-router"
        /\ dlqMessage.error_message = execRet
        /\ execRet \in {OpenError, "failed to publish events",
                        "failed to marshal event detail"}
        /\ dlqMessage.original_event =
              [event_id |-> batch[idx].eventID,
               event_type |-> batch[idx].eventName,
               payload |-> "new_image",
               target_region |-> None,
               compression_type |-> None]

DeadLetterRecordShapeWitness ==
    /\ rpc = "record_done"
    /\ dlqMessage /= NoMessage
    /\ dlqMessage.error_message = "failed to publish events"
    /\ compressErr = Nil
    /\ envelope.payload = "compressed_data"

(***************************************************************************)
(* Properties of the EventBridge publisher.                                *)
(***************************************************************************)
LastOf(ss) == ss[Len(ss)]

\* C25: within one publishEntries call a retry resubmits exactly the entries
\* the last response reported failed, in their order; a request never holds
\* an entry reported successful before; and until the attempts are exhausted
\* every entry of the batch is either reported successful or still pending.
RetryResubmitsFailedEntries ==
    /\ [](pubpc = "attempt" =>
             /\ Range(entries) \cap reportedOK = {}
             /\ Range(entries) \cup reportedOK = Range(LastOf(batches))
             /\ entries /= <<>>)
    /\ [](pubResult = PublishFailed => (attempt > maxRetry /\ entries /= <<>>))
    /\ [][(pubpc = "attempt" /\ pubpc' = "attempt" /\ attempt' = attempt + 1) =>
             entries' = Without(entries, reportedOK')]_vars
    /\ [][requests' /= requests =>
             /\ LastOf(requests') = entries
             /\ Range(LastOf(requests')) \cap reportedOK = {}]_vars

\* A retry is pending after a response that reported part of the request
\* successful.
RetryResubmitsFailedEntriesWitness ==
    /\ pubpc = "attempt"
    /\ attempt > 0
    /\ reportedOK /= {}
    /\ Len(entries) >= 2
    /\ Len(entries) < Len(LastOf(batches))

\* C29, as the specification states it: when publishEntries gives up, the
\* number of PutEvents attempts it made is the number its error reports,
\* maxRetry.
AttemptsMadeAreAttemptsReported ==
    pubResult = PublishFailed =>
        (attemptsReported = maxRetry /\ attempt = attemptsReported)

\* C30: every request holds between one and maxBatchSize entries; the batches
\* are consecutive runs of the events in their order; when every request
\* succeeds every event is in exactly one request; an empty input makes no
\* request and returns nil.
BatchesOfAtMostMaxBatchSize ==
    /\ \A k \in 1..Len(requests) :
          Len(requests[k]) >= 1 /\ Len(requests[k]) <= maxBatchSize
    /\ Flatten(batches) = [k \in 1..Len(Flatten(batches)) |-> k]
    /\ (pubResult = Nil /\ Len(requests) = Len(batches)) =>
          /\ requests = batches
          /\ Flatten(requests) = [k \in 1..events |-> k]
    /\ (events = 0 /\ pubpc = "done") => (pubResult = Nil /\ requests = <<>>)

\* Three requests carried more than two full batches, each accepted whole.
BatchesOfAtMostMaxBatchSizeWitness ==
    /\ pubResult = Nil
    /\ events > 2 * maxBatchSize
    /\ Len(requests) = 3
    /\ Len(batches) = 3

\* The publisher alone.
InitPublisherAlone ==
    /\ InitConsumer
    /\ log = IdleLog
    /\ IdleBreaker
    /\ IdleProcessor
    /\ InitRouter
    /\ InitPublisher
    /\ IdleHealth
    /\ gotState = None
    /\ healed = FALSE
    /\ IdleHandler

SpecPublisher == InitPublisherAlone /\ [][NextPublisher]_vars

(***************************************************************************)
(* Properties of the health aggregation.                                   *)
(***************************************************************************)
RECURSIVE DepsBefore(_, _)
DepsBefore(cs, i) ==
    IF i <= 1 THEN 0 ELSE DepsBefore(cs, i - 1) + Len(cs[i - 1].dependencies)

RECURSIVE ErrorsBefore(_, _)
ErrorsBefore(cs, i) ==
    IF i <= 1 THEN 0 ELSE ErrorsBefore(cs, i - 1) + Len(cs[i - 1].errorMessages)

Severity(st) ==
    IF st = StatusUnhealthy THEN 2 ELSE IF st = StatusDegraded THEN 1 ELSE 0

\* C28: aggregateHealth returns unhealthy for no checks; otherwise its status
\* is the worst status among the dependencies of all the checks (healthy when
\* there is none), and its dependencies and error messages are those of all
\* the checks, in order.
AggregateIsWorstOfAll ==
    aggregated /= NoHealth =>
        LET n == Len(checksIn)
        IN  /\ n = 0 => aggregated.status = StatusUnhealthy
            /\ n > 0 =>
                /\ Len(aggregated.dependencies) = DepsBefore(checksIn, n + 1)
                /\ \A i \in 1..n : \A j \in 1..Len(checksIn[i].dependencies) :
                      aggregated.dependencies[DepsBefore(checksIn, i) + j]
                          = checksIn[i].dependencies[j]
                /\ Len(aggregated.errorMessages) = ErrorsBefore(checksIn, n + 1)
                /\ \A i \in 1..n : \A j \in 1..Len(checksIn[i].errorMessages) :
                      aggregated.errorMessages[ErrorsBefore(checksIn, i) + j]
                          = checksIn[i].errorMessages[j]
                /\ \A k \in 1..Len(aggregated.dependencies) :
                      Severity(aggregated.status) >= Severity(aggregated.dependencies[k])
                /\ \/ \E k \in 1..Len(aggregated.dependencies) :
                          aggregated.status = aggregated.dependencies[k]
                   \/ aggregated.dependencies = <<>> /\ aggregated.status = StatusHealthy

\* Two checks were aggregated: the first has a degraded dependency, the
\* second an unhealthy one, and both carry an error message.
AggregateIsWorstOfAllWitness ==
    /\ aggregated /= NoHealth
    /\ Len(checksIn) = 2
    /\ checksIn[1].dependencies = <<StatusDegraded>>
    /\ checksIn[2].dependencies = <<StatusHealthy, StatusUnhealthy>>
    /\ aggregated.status = StatusUnhealthy
    /\ Len(aggregated.errorMessages) = 2

\* The health aggregation alone.
InitHealthAlone ==
    /\ InitConsumer
    /\ log = IdleLog
    /\ IdleBreaker
    /\ IdleProcessor
    /\ InitRouter
    /\ IdlePublisher
    /\ InitHealth
    /\ gotState = None
    /\ healed = FALSE
    /\ IdleHandler

SpecHealth == InitHealthAlone /\ [][NextHealth]_vars

(***************************************************************************)
(* Further properties of the event-router.                                 *)
(***************************************************************************)
\* C31: a failed record gets one sendToDLQ call and no second one; when the
\* call fails the failure is logged, the DLQMessages counter is not
\* incremented, and processRecord returns the same error as when it succeeds.
DeadLetterBestEffort ==
    /\ [](rpc = "record_done" /\ execRet /= Nil => dlqCalls = 1)
    /\ [][rpc = "dlq" =>
             /\ dlqCalls = 0
             /\ dlqCalls' = 1
             /\ rpc' = "record_done"
             /\ recErr' = "failed to route event"
             /\ dlqErr' /= Nil =>
                   (dlqCounted' = 0 /\ dlqFailures' = dlqFailures + 1)
             /\ dlqErr' = Nil =>
                   (dlqCounted' = 1 /\ dlqFailures' = dlqFailures)]_vars

\* The sink refused the dead-letter message of a record.
DeadLetterBestEffortWitness ==
    /\ rpc = "record_done"
    /\ dlqErr = "failed to send to DLQ"
    /\ dlqCalls = 1
    /\ dlqCounted = 0
    /\ dlqFailures >= 1
    /\ recErr = "failed to route event"

(***************************************************************************)
(* Further properties of the circuit breaker.                              *)
(***************************************************************************)
\* C32: the state is one of closed, open and half_open; a closed breaker has
\* fewer than maxFailures failures counted, an open or half-open one has at
\* least maxFailures.
StateAgreesWithFailureCount ==
    /\ cbState \in {CircuitBreakerClosed, CircuitBreakerOpen, CircuitBreakerHalfOpen}
    /\ maxFailures >= 1
    /\ cbState = CircuitBreakerClosed => failureCount < maxFailures
    /\ cbState \in {CircuitBreakerOpen, CircuitBreakerHalfOpen} =>
          failureCount >= maxFailures

\* A breaker that has opened and recovered is closed again, with a failure
\* counted since.
StateAgreesWithFailureCountWitness ==
    /\ cbState = CircuitBreakerClosed
    /\ hoSuccesses >= 2
    /\ failureCount = 1
    /\ maxFailures = 2

\* A success of a call checked while the breaker was closed.
ClosedSuccess(c) ==
    /\ Returning(c)
    /\ pre[c].state = CircuitBreakerClosed
    /\ fnErr[c] = Nil

\* C33: a success in state closed leaves failureCount as it was and the
\* breaker closed, so the failures of a closed breaker add up across the
\* successes between them until the maxFailures-th opens it.
ClosedSuccessKeepsFailureCount ==
    \A c \in Callers :
        /\ ClosedSuccess(c) =>
              /\ failureCount = pre[c].failureCount
              /\ successCount = pre[c].successCount + 1
              /\ cbState = CircuitBreakerClosed
        /\ (Returning(c) /\ pre[c].state = CircuitBreakerClosed /\ fnErr[c] /= Nil
                /\ pre[c].failureCount + 1 >= maxFailures) =>
              cbState = CircuitBreakerOpen

\* A failure opens a closed breaker that has counted failures and successes
\* before it.
ClosedSuccessKeepsFailureCountWitness ==
    /\ maxFailures > 1
    /\ \E c \in Callers :
          /\ Returning(c)
          /\ pre[c].state = CircuitBreakerClosed
          /\ pre[c].successCount > 0
          /\ pre[c].failureCount > 0
          /\ fnErr[c] /= Nil
          /\ cbState = CircuitBreakerOpen

\* The call of c was rejected by the open check.
Rejected(c) == Returning(c) /\ ~invoked[c]

\* C34: a failure in half-open reopens the breaker and restarts the open
\* interval at that failure; an open breaker counts its interval from the
\* failure that opened it, rejects every call checked until more than timeout
\* has elapsed since then, and a rejection does not move the start of the
\* interval.
HalfOpenFailureRestartsInterval ==
    /\ [](cbState = CircuitBreakerOpen => lastStateChange = lastFailure)
    /\ [](\A c \in Callers :
             (Returning(c) /\ pre[c].state = CircuitBreakerOpen) =>
                 (pre[c].now - pre[c].lastFailure <= timeout <=> Rejected(c)))
    /\ [][\A c \in Callers :
             (bpc[c] = "fn" /\ bpc'[c] = "unlock" /\ cbState = CircuitBreakerHalfOpen
                  /\ fnErr'[c] /= Nil) =>
                 (cbState' = CircuitBreakerOpen /\ lastStateChange' = now)]_vars
    /\ [][\A c \in Callers :
             (bpc[c] = "check" /\ bpc'[c] = "unlock") =>
                 (lastStateChange' = lastStateChange /\ cbState' = CircuitBreakerOpen)]_vars

\* A call is rejected by a breaker that a failure in half-open has reopened,
\* some time after that failure.
HalfOpenFailureRestartsIntervalWitness ==
    \E c \in Callers :
        /\ Rejected(c)
        /\ pre[c].failureCount > maxFailures
        /\ pre[c].now > pre[c].lastFailure

\* The fields of the breaker that the calls of Execute write.
Counters(f) ==
    <<f.state, f.failureCount, f.successCount, f.lastFailure, f.lastStateChange>>

\* C35: a rejected call leaves state, failureCount, successCount, lastFailure
\* and lastStateChange as they were when the call took the lock.
RejectionChangesNothing ==
    \A c \in Callers :
        Rejected(c) =>
            /\ ret[c] = OpenError
            /\ pre[c].state = CircuitBreakerOpen
            /\ Counters(Fields) = Counters(pre[c])

\* A call is rejected while time has passed since the breaker opened.
RejectionChangesNothingWitness ==
    \E c \in Callers :
        /\ Rejected(c)
        /\ now > lastStateChange
        /\ failureCount = maxFailures

(***************************************************************************)
(* Recovery of the circuit breaker once the wrapped operation succeeds.    *)
(***************************************************************************)
\* The fault of the wrapped operation is over: every later return is nil.
Heal ==
    /\ ~healed
    /\ healed' = TRUE
    /\ UNCHANGED <<consumerVars, breakerVars, procVars, routerVars, pubVars,
                   healthVars, gotState, handlerVars>>

\* fn returns: anything before the fault is over, nil after.
CompleteHealing(c, e) ==
    /\ healed => e = Nil
    /\ Complete(c, e)

CallArrives == \E c \in Callers : Call(c)

CallProceeds ==
    \/ \E c \in Callers : Lock(c)
    \/ \E c \in Callers : Check(c)
    \/ \E c \in Callers, e \in FnOutcomes : CompleteHealing(c, e)
    \/ \E c \in Callers : Unlock(c)

NextBreakerRecovering ==
    \/ CallArrives
    \/ CallProceeds
    \/ Tick
    \/ Heal

\* A breaker constructed with the largest threshold and timeout modelled.
InitBreakerRecovering ==
    /\ InitConsumer
    /\ log = IdleLog
    /\ IdleBreaker
    /\ IdleProcessor
    /\ InitRouter
    /\ IdleLibrary

\* Calls keep arriving, a call that can proceed does, and time advances.
SpecBreakerRecovering ==
    /\ InitBreakerRecovering
    /\ [][NextBreakerRecovering]_vars
    /\ WF_vars(CallArrives)
    /\ WF_vars(CallProceeds)
    /\ WF_vars(Tick)

\* An open breaker whose timeout has elapsed, or a half-open one: the next
\* call is invoked.
Probing ==
    \/ cbState = CircuitBreakerHalfOpen
    \/ cbState = CircuitBreakerOpen /\ TimeoutElapsed(now)

\* C36: once every operation succeeds, an open breaker does not stay open
\* (its timeout elapses whatever calls are rejected meanwhile, as far as the
\* clock of the model reaches), a breaker that lets calls through closes
\* (while two calls can still be made), and a closed breaker stays closed.
RecoversWhenOperationsSucceed ==
    /\ (healed /\ cbState = CircuitBreakerOpen /\ lastStateChange + timeout < MaxTime)
          ~> (cbState /= CircuitBreakerOpen \/ TimeoutElapsed(now))
    /\ (healed /\ Probing /\ calls + 2 <= MaxCalls)
          ~> (cbState = CircuitBreakerClosed)
    /\ [][(healed /\ cbState = CircuitBreakerClosed) =>
             cbState' = CircuitBreakerClosed]_vars

\* The breaker has opened, the operation has recovered, and the breaker is
\* closed again.
RecoversWhenOperationsSucceedWitness ==
    /\ healed
    /\ cbState = CircuitBreakerClosed
    /\ hoSuccesses >= 2
    /\ lastStateChange > timeout

(***************************************************************************)
(* The event-router and its breaker.                                       *)
(***************************************************************************)
\* The event-router with a breaker of any threshold and timeout.
SpecRouterAnyBreaker == InitBreakerAlone /\ [][NextRouter]_vars

\* C37: the breaker outlives the batch and the invocation; a record checked
\* while the breaker is open and its timeout has not elapsed is rejected
\* without a publish attempt and handed to the dead-letter sink; so beyond the
\* maxFailures failures that open the breaker, a failing record reaches the
\* publisher only once per elapsed timeout.
OpenBreakerShedsRecords ==
    /\ [](failureCount > maxFailures =>
             (failureCount - maxFailures) * (timeout + 1) <= lastStateChange)
    /\ [](cbState = CircuitBreakerClosed => failureCount < maxFailures)
    /\ [][invocations' /= invocations =>
             (BreakerFields' = BreakerFields /\ hoSuccesses' = hoSuccesses)]_vars
    /\ [][(bpc[Router] = "check" /\ cbState = CircuitBreakerOpen
               /\ ~TimeoutElapsed(now)) =>
             /\ bpc'[Router] = "unlock"
             /\ ret'[Router] = OpenError
             /\ ~invoked'[Router]
             /\ publishedDetail' = publishedDetail]_vars
    /\ [][(rpc = "in_execute" /\ rpc' /= rpc /\ ~invoked[Router]) =>
             (rpc' = "dlq" /\ execRet' = OpenError)]_vars
    /\ [][bpc[Router] = "fn" => invoked[Router]]_vars

\* The first record of a second invocation is rejected by the breaker that
\* the two records of the first invocation opened.
OpenBreakerShedsRecordsWitness ==
    /\ invocations = 2
    /\ rpc = "dlq"
    /\ execRet = OpenError
    /\ idx = 1
    /\ maxFailures = 2
    /\ failureCount = maxFailures

(***************************************************************************)
(* The circuit-breaker state gauge.                                        *)
(***************************************************************************)
\* The gauge reports state st.
GaugeReports(st) ==
    /\ gauge = 0 <=> st = CircuitBreakerClosed
    /\ gauge = 1 <=> st = CircuitBreakerOpen
    /\ gauge = 2 <=> st = CircuitBreakerHalfOpen

\* C38: every change of state sets the gauge in the same critical section, so
\* from the first change on the gauge reports the state of the breaker (0
\* closed, 1 open, 2 half_open), which is the state GetState returns; until
\* then the gauge is not set and the breaker is closed.
GaugeFollowsState ==
    /\ [](gauge /= NoGauge => GaugeReports(cbState))
    /\ [](gauge = NoGauge => cbState = CircuitBreakerClosed)
    /\ [][cbState' /= cbState => (gauge' /= NoGauge /\ mu /= 0 /\ mu' = mu)]_vars
    /\ [][(gotState' /= gotState /\ gauge' /= NoGauge) => GaugeReports(gotState')]_vars

\* GetState has returned half_open and the gauge is 2.
GaugeFollowsStateWitness ==
    /\ gotState = CircuitBreakerHalfOpen
    /\ cbState = CircuitBreakerHalfOpen
    /\ gauge = 2
    /\ mu = 0

(***************************************************************************)
(* The health-checker Handler and its goroutines.                          *)
(***************************************************************************)
InitHandlerAlone ==
    /\ InitConsumer
    /\ log = IdleLog
    /\ IdleBreaker
    /\ IdleProcessor
    /\ InitRouter
    /\ IdlePublisher
    /\ IdleHealth
    /\ gotState = None
    /\ healed = FALSE
    /\ InitHandler

\* The Go scheduler runs every goroutine that can take a step, and every
\* dependency check returns.
SpecHandler == InitHandlerAlone /\ [][NextHandler]_vars /\ WF_vars(NextHandler)

\* The goroutine of region r has finished.
Finished(r) == gpc[r] = "done"

\* The send the goroutine of region r is at would wait.
BlockedOnSend(r) ==
    /\ gpc[r] = "send"
    /\ Len(IF checkRegionHealthErr(health[r]) /= Nil THEN errorsChan
           ELSE healthChecks) >= ChannelCapacity

\* A regional result holds one entry for each of the three dependencies.
HoldsThreeDependencies(h) ==
    /\ Len(h.dependencies) = 3
    /\ Len(appended[h.region]) = 3
    /\ \A d \in Dependencies : \E j \in 1..3 : appended[h.region][j] = d

\* C39: each region goroutine puts exactly one item on the results channel or
\* the errors channel and never waits in the send or sends on a closed
\* channel; a channel is closed only when both goroutines have finished; the
\* handler reaches aggregation, then with one item collected per region; and
\* every regional result sent and collected holds exactly three dependency
\* entries.
HandlerCollectsBothRegions ==
    /\ [](\A r \in Regions :
            /\ ~BlockedOnSend(r)
            /\ gpc[r] /= "panic"
            /\ sentBy[r] = IF gpc[r] \in {"deferred", "done"} THEN 1 ELSE 0)
    /\ [](closedChans /= {} => \A r \in Regions : Finished(r))
    /\ [](\A k \in 1..Len(healthChecks) : HoldsThreeDependencies(healthChecks[k]))
    /\ [](hpc \in {"collect_results", "collect_errors", "aggregate"} =>
            \A k \in 1..Len(results) : HoldsThreeDependencies(results[k]))
    /\ [](hpc = "aggregate" => Len(results) + Len(checkErrors) = 2)
    /\ [](hpc = "returned" =>
            /\ handlerAggregated.region = "multi-region"
            /\ Len(handlerAggregated.dependencies) = 6)
    /\ <>(hpc = "returned")

\* Both region checks were running at once, both sent a result, and the
\* handler has aggregated the two.
HandlerCollectsBothRegionsWitness ==
    /\ hpc = "returned"
    /\ Len(handlerAggregated.dependencies) = 6
    /\ \A r \in Regions : sentBy[r] = 1 /\ Finished(r)
    /\ closedChans = {"healthChecks", "errors"}
    /\ appended[RegionOf(1)] /= appended[RegionOf(2)]

====
